---- MODULE Spec2Model ----
(***************************************************************************)
(* The receipt lifecycle of the indexer: receipt admission                 *)
(* (common/src/tap_manager.rs), the receipts table with its insert         *)
(* notification, and the per-(allocation, sender) accounting actor         *)
(* (tap-agent/src/agent/sender_allocation.rs), the allocations feed and    *)
(* the uniqueness check of the receipt checks adapter.                     *)
(*                                                                         *)
(* The specifications share the variables:                                 *)
(*   SpecAdmit  concurrent verify_and_store_receipt calls interleaved      *)
(*              with refreshes of the allocations and escrow feeds;        *)
(*   Spec       one Sender-Allocation actor, the receipts and RAV tables   *)
(*              of its pair, and the notifications in flight to it;        *)
(*   FairSpec   Spec with the progress the async runtime gives;            *)
(*   SpecCalc   calculate_unaggregated_fee applied to bounded tables;      *)
(*   SpecQuery  the end of calculate_unaggregated_fee applied to every     *)
(*              row the aggregate query could return;                      *)
(*   SpecClose  the actor's start, close and stop with every number of     *)
(*              rows the marking of the last RAV may affect;               *)
(*   SpecLife   Spec with the supervisor stopping and restarting the       *)
(*              actor;                                                     *)
(*   SpecFeed   the allocations feed (common/src/allocations/monitor.rs)   *)
(*              polling the network subgraph as time passes;               *)
(*   SpecUnique is_unique (tap-agent/src/tap/receipt_checks_adapter.rs)    *)
(*              applied to stored and arbitrary receipts;                  *)
(*   SpecPipeline  SpecAdmit's calls together with the actor of the pair   *)
(*              handling the notifications of the rows they store;         *)
(*   SpecRequest  the RAV request with invalid receipts set aside and      *)
(*              persisted, for TriggerRAVRequest and CloseAllocation.      *)
(***************************************************************************)
EXTENDS Integers, Sequences, FiniteSets, TLC

VARIABLES
    indexer_allocations,   \* TapManager.indexer_allocations: the feed's current key set
    escrow_accounts,       \* the escrow feed's current value: [balances, signers]
    call,                  \* verify_and_store_receipt calls: position, argument, result
    receipts,              \* rows of scalar_tap_receipts
    next_id,               \* the serial of scalar_tap_receipts.id
    notifications,         \* scalar_tap_receipt_notification payloads in flight
    rav,                   \* the pair's row of scalar_tap_ravs, or NoRav
    status,                \* lifecycle of the Sender-Allocation actor
    current,               \* the message the actor is handling, or NoMessage
    unaggregated_fees,     \* SenderAllocationState.unaggregated_fees
    sender_account_mailbox,\* messages cast to sender_account_ref, oldest first
    totals,                \* the parent's record of the pair's fees (totals[allocation])
    reply,                 \* what was sent on the last TriggerRAVRequest reply port
    duplicates,            \* notifications delivered a second time so far
    triggers,              \* TriggerRAVRequest messages sent to the actor so far
    added,                 \* ids of the receipts whose value a NewReceipt has added
    started_fresh,         \* the actor started on a pair without receipts and RAV
    delivered_in_order,    \* the last id delivered while the ids were delivered in
                           \* strictly increasing order, -1 once they were not
    aggregate_row,         \* the row the aggregate query of pre_start returned
    rav_requests_failed,   \* rows of scalar_tap_rav_requests_failed
    receipts_invalid,      \* rows of scalar_tap_receipts_invalid
    rav_requests_in_progress, \* RAV requests between create_rav_request and their
                           \* last database write
    error,                 \* the error that ended the actor, or NoError
    updated_rows,          \* rows_affected() of the UPDATE of mark_rav_last, once run
    stored_at_start,       \* ids of the rows the table held when pre_start ran
    restarted,             \* a new actor was started for the pair after a stop
    feed,                  \* the refresh loop of indexer_allocations(..): position, the
                           \* query in flight, the last response, whether the Eventual
                           \* holds a value
    network,               \* what the network subgraph holds for the indexer
    clock                  \* SystemTime::now() in seconds, as the refresh loop sees it

feedVars   == <<feed, network, clock>>
admitVars  == <<indexer_allocations, escrow_accounts, call, feedVars>>
dbVars     == <<receipts, next_id, notifications>>
stateVars  == <<status, current, unaggregated_fees>>
parentVars == <<sender_account_mailbox, totals, reply>>
envVars    == <<duplicates, triggers, restarted>>
ghostVars  == <<added, started_fresh, delivered_in_order, stored_at_start>>
requestVars == <<aggregate_row, rav_requests_failed, rav_requests_in_progress, error,
                 updated_rows, receipts_invalid>>
actorVars  == <<rav, stateVars, parentVars, envVars, ghostVars, requestVars>>

vars == <<admitVars, dbVars, actorVars>>

----------------------------------------------------------------------------
(* Bounds *)

MaxBalance  == 1     \* escrow balances range over 0..MaxBalance
MaxReceipts == 2     \* rows inserted for the actor's pair
MaxDuplicates == 1   \* notifications delivered twice
MaxTriggers == 1     \* TriggerRAVRequest messages
U128_MAX    == 2     \* stands for u128::MAX: the width of the fee counter, scaled

----------------------------------------------------------------------------
(* Addresses *)

Allocs == {"A1", "A2"}                 \* allocation ids
Addrs  == {"S1", "K1"}                 \* accounts / signing keys
Tasks  == {"t1", "t2"}                 \* concurrent ingress tasks
Values == {1, 2}                       \* receipt values
Timestamps == {1, 2}                   \* receipt timestamps

Malformed    == "Malformed"            \* the "key" of a signature recover_signer rejects
RecoverError == "RecoverError"

(* A signature is the signing key together with the message it covers. *)
Sign(message, key) == [key |-> key, digest |-> message]

Receipt(a, nonce, ts, v) ==
    [allocation_id |-> a, nonce |-> nonce, timestamp_ns |-> ts, value |-> v]

SignedReceipt(message, key) == [message |-> message, signature |-> Sign(message, key)]

(* receipt.recover_signer(domain_separator): the key whose signature covers *)
(* exactly this message, an error for a signature that cannot be recovered. *)
recover_signer(receipt) ==
    IF receipt.signature.key = Malformed THEN RecoverError
    ELSE IF receipt.signature.digest = receipt.message THEN receipt.signature.key
    ELSE RecoverError

(* The receipts the ingress tasks submit. *)
AdmitReceipts ==
    {SignedReceipt(Receipt(a, 1, 1, 1), k) : a \in Allocs, k \in Addrs \cup {Malformed}}

----------------------------------------------------------------------------
(* The feeds *)

BalanceMaps == UNION {[D -> 0..MaxBalance] : D \in SUBSET Addrs}

(* EscrowAccounts::new(balances, signers): sender S1 has authorised the     *)
(* signing key K1.                                                          *)
SignerMap == [s \in {"S1"} |-> {"K1"}]

EscrowValues == {[balances |-> b, signers |-> SignerMap] : b \in BalanceMaps}

----------------------------------------------------------------------------
(* The receipts table (scalar_tap_receipts) and its insert trigger *)

Row(id, receipt) ==
    [id |-> id,
     allocation_id  |-> receipt.message.allocation_id,
     signer_address |-> recover_signer(receipt),
     signature      |-> receipt.signature,
     timestamp_ns   |-> receipt.message.timestamp_ns,
     value          |-> receipt.message.value]

(* The payload the insert trigger sends on scalar_tap_receipt_notification. *)
Notification(row) ==
    [id |-> row.id, allocation_id |-> row.allocation_id,
     signer_address |-> row.signer_address,
     timestamp_ns |-> row.timestamp_ns, value |-> row.value]

(* Mutant: a uniqueness constraint on the signature column. *)
insert_accepts_unique(table, receipt) ==
    ~ \E row \in table : row.signature = receipt.signature

(* Whether the table takes this receipt.  The table has no uniqueness       *)
(* constraint on the signature: storing a receipt whose signature is        *)
(* already stored succeeds under a fresh id (test::is_unique).              *)
insert_accepts(table, receipt) == TRUE

(* INSERT INTO scalar_tap_receipts: the row gets the next serial id and the *)
(* trigger emits one notification for it.                                   *)
InsertReceipt(receipt) ==
    LET row == Row(next_id, receipt) IN
    /\ receipts' = receipts \cup {row}
    /\ next_id' = next_id + 1
    /\ notifications' = notifications \cup {Notification(row)}

(* Mutant: the query without its id != $1 condition. *)
is_unique_any_id(table, receipt, receipt_id) ==
    ~ \E row \in table : row.signature = receipt.signature

(* ReceiptChecksAdapter::is_unique: no other row carries the signature. *)
is_unique(table, receipt, receipt_id) ==
    ~ \E row \in table : row.id # receipt_id /\ row.signature = receipt.signature

I64_MAX == 3         \* stands for i64::MAX: the width of the id in the query, scaled
ReceiptIds == 0..(I64_MAX + 1)   \* the receipt_id argument is a u64

----------------------------------------------------------------------------
(* Receipt admission: TapManager::verify_and_store_receipt *)

NoReceipt == SignedReceipt(Receipt("none", 0, 0, 0), Malformed)
NoResult  == "NoResult"
NoCall ==
    [pc |-> "idle", receipt |-> NoReceipt, result |-> NoResult,
     saw_allocation |-> FALSE, saw_balance |-> "unread", io_ok |-> FALSE,
     receipt_id |-> 0]

(* Mutant: the allocation check lets every allocation through. *)
allocation_eligible_any(allocations, allocation_id) == TRUE

(* allocations.contains_key(allocation_id) *)
allocation_eligible(allocations, allocation_id) == allocation_id \in allocations

(* Mutant: the balance test is >= instead of >. *)
sender_eligible_ge(balances, receipt_signer) ==
    /\ receipt_signer \in DOMAIN balances
    /\ balances[receipt_signer] >= 0

(* accounts.get(&receipt_signer).map_or(false, |balance| balance > 0):      *)
(* the balance is looked up under the recovered signer's own address.       *)
sender_eligible(balances, receipt_signer) ==
    /\ receipt_signer \in DOMAIN balances
    /\ balances[receipt_signer] > 0

Return(t, result) == [call[t] EXCEPT !.pc = "returned", !.result = result]

(* What a read of the balances map shows for an address. *)
Seen(balances, a) ==
    IF a \notin DOMAIN balances THEN "absent"
    ELSE IF balances[a] = 0 THEN "zero" ELSE "positive"

(* An ingress task calls verify_and_store_receipt(receipt). *)
Call(t, receipt) ==
    /\ call[t].pc = "idle"
    /\ call' = [call EXCEPT ![t].pc = "check_allocation", ![t].receipt = receipt]
    /\ UNCHANGED <<indexer_allocations, escrow_accounts, dbVars, actorVars, feedVars>>

(* Mutant: the signer is recovered before the allocation is checked. *)
CheckAllocation_signature_first(t) ==
    /\ call[t].pc = "check_allocation"
    /\ LET receipt == call[t].receipt
           seen == receipt.message.allocation_id \in indexer_allocations
           next ==
             IF recover_signer(receipt) = RecoverError
             THEN Return(t, "SignatureInvalid")
             ELSE IF ~ allocation_eligible(indexer_allocations,
                                           receipt.message.allocation_id)
             THEN Return(t, "IneligibleAllocation")
             ELSE [call[t] EXCEPT !.pc = "check_sender"]
       IN call' = [call EXCEPT ![t] = [next EXCEPT !.saw_allocation = seen]]
    /\ UNCHANGED <<indexer_allocations, escrow_accounts, dbVars, actorVars, feedVars>>

(* Read-through of the allocations feed, the eligibility check, and the     *)
(* signer recovery that follows it without suspension.  saw_allocation      *)
(* records what the feed held when it was read.                             *)
CheckAllocation(t) ==
    /\ call[t].pc = "check_allocation"
    /\ LET receipt == call[t].receipt
           seen == receipt.message.allocation_id \in indexer_allocations
           next ==
             IF ~ allocation_eligible(indexer_allocations, receipt.message.allocation_id)
             THEN Return(t, "IneligibleAllocation")
             ELSE IF recover_signer(receipt) = RecoverError
             THEN Return(t, "SignatureInvalid")
             ELSE [call[t] EXCEPT !.pc = "check_sender"]
       IN call' = [call EXCEPT ![t] = [next EXCEPT !.saw_allocation = seen]]
    /\ UNCHANGED <<indexer_allocations, escrow_accounts, dbVars, actorVars, feedVars>>

(* Mutant: a receipt whose sender is not eligible is stored before the      *)
(* error is returned.                                                       *)
CheckSender_stores_rejected(t) ==
    /\ call[t].pc = "check_sender"
    /\ LET receipt_signer == recover_signer(call[t].receipt)
           seen == Seen(escrow_accounts.balances, receipt_signer)
           eligible == sender_eligible(escrow_accounts.balances, receipt_signer)
           next ==
             IF ~ eligible
             THEN Return(t, "IneligibleSender")
             ELSE [call[t] EXCEPT !.pc = "insert"]
       IN /\ call' = [call EXCEPT ![t] = [next EXCEPT !.saw_balance = seen]]
          /\ IF eligible THEN UNCHANGED dbVars ELSE InsertReceipt(call[t].receipt)
    /\ UNCHANGED <<indexer_allocations, escrow_accounts, actorVars, feedVars>>

(* Read-through of the escrow feed and the sender check.  saw_balance       *)
(* records what the feed held for the signer when it was read.              *)
CheckSender(t) ==
    /\ call[t].pc = "check_sender"
    /\ LET receipt_signer == recover_signer(call[t].receipt)
           seen == Seen(escrow_accounts.balances, receipt_signer)
           next ==
             IF ~ sender_eligible(escrow_accounts.balances, receipt_signer)
             THEN Return(t, "IneligibleSender")
             ELSE [call[t] EXCEPT !.pc = "insert"]
       IN call' = [call EXCEPT ![t] = [next EXCEPT !.saw_balance = seen]]
    /\ UNCHANGED <<indexer_allocations, escrow_accounts, dbVars, actorVars, feedVars>>

(* The INSERT, which the database may fail (io_ok records whether it did).  *)
Insert(t) ==
    /\ call[t].pc = "insert"
    /\ \E io_ok \in BOOLEAN :
         IF io_ok /\ insert_accepts(receipts, call[t].receipt)
         THEN /\ InsertReceipt(call[t].receipt)
              /\ call' = [call EXCEPT ![t] = [Return(t, "Ok") EXCEPT !.io_ok = io_ok]]
         ELSE /\ call' = [call EXCEPT ![t] =
                            [Return(t, "StorageError") EXCEPT !.io_ok = io_ok]]
              /\ UNCHANGED dbVars
    /\ UNCHANGED <<indexer_allocations, escrow_accounts, actorVars, feedVars>>

(* A task stores a receipt (store_receipt) and holds the id it was given,   *)
(* to check the receipt under that id.                                      *)
StoreToCheck(t, receipt) ==
    /\ call[t].pc = "idle"
    /\ next_id <= I64_MAX
    /\ InsertReceipt(receipt)
    /\ call' = [call EXCEPT ![t].pc = "is_unique", ![t].receipt = receipt,
                            ![t].receipt_id = next_id]
    /\ UNCHANGED <<indexer_allocations, escrow_accounts, actorVars, feedVars>>

(* A task checks any receipt under any id. *)
CallIsUnique(t, receipt, receipt_id) ==
    /\ call[t].pc = "idle"
    /\ call' = [call EXCEPT ![t].pc = "is_unique", ![t].receipt = receipt,
                            ![t].receipt_id = receipt_id]
    /\ UNCHANGED <<indexer_allocations, escrow_accounts, dbVars, actorVars, feedVars>>

(* is_unique(receipt, receipt_id) returns: an id that does not fit an i64   *)
(* and a failed query are adapter errors, otherwise the result is whether   *)
(* the query found no row.                                                  *)
IsUnique(t) ==
    /\ call[t].pc = "is_unique"
    /\ \E io_ok \in BOOLEAN :
         LET result ==
               IF call[t].receipt_id > I64_MAX \/ ~ io_ok THEN "AdapterError"
               ELSE IF is_unique(receipts, call[t].receipt, call[t].receipt_id)
               THEN "true" ELSE "false"
         IN call' = [call EXCEPT ![t] = [Return(t, result) EXCEPT !.io_ok = io_ok]]
    /\ UNCHANGED <<indexer_allocations, escrow_accounts, dbVars, actorVars, feedVars>>

(* The allocations feed publishes a new value (indexer_allocations). *)
RefreshAllocations ==
    /\ \E v \in SUBSET Allocs :
         /\ v # indexer_allocations
         /\ indexer_allocations' = v
    /\ UNCHANGED <<escrow_accounts, call, dbVars, actorVars, feedVars>>

(* The escrow feed publishes a new value. *)
RefreshEscrow ==
    /\ \E v \in EscrowValues :
         /\ v # escrow_accounts
         /\ escrow_accounts' = v
    /\ UNCHANGED <<indexer_allocations, call, dbVars, actorVars, feedVars>>

----------------------------------------------------------------------------
(* The allocations feed: indexer_allocations(network_subgraph, indexer,     *)
(* interval, recently_closed_allocation_buffer)                             *)

Interval == 2        \* interval, in seconds
ClosedBuffer == 1    \* recently_closed_allocation_buffer, in seconds
MaxClock == 4        \* the clock is followed up to MaxClock
MaxFailures == 2     \* consecutive failed refreshes that are counted

NoResponse == [kind |-> "None"]

(* An allocation of the indexer on the network. *)
NoAllocation == [status |-> "None", closed_at |-> 0]
ActiveAllocation == [status |-> "Active", closed_at |-> 0]
ClosedAllocation(closed_at) == [status |-> "Closed", closed_at |-> closed_at]

(* The two lists of the allocations query: the indexer's active             *)
(* allocations, and its allocations closed at or after the threshold.       *)
active_allocations(net) ==
    {a \in Allocs : net.allocations[a].status = "Active"}

recently_closed_allocations(net, closed_at_threshold) ==
    {a \in Allocs : /\ net.allocations[a].status = "Closed"
                    /\ net.allocations[a].closed_at >= closed_at_threshold}

(* What network_subgraph.query(..).await can come to: a failed query, a     *)
(* response that carries errors, or data in which indexer is null or holds  *)
(* the two lists.                                                           *)
Responses(net, closed_at_threshold) ==
    {[kind |-> "QueryError"], [kind |-> "ErrorResponse"],
     IF net.indexer
     THEN [kind |-> "Data", indexer |-> TRUE,
           active_allocations |-> active_allocations(net),
           recently_closed_allocations |->
               recently_closed_allocations(net, closed_at_threshold)]
     ELSE [kind |-> "Data", indexer |-> FALSE,
           active_allocations |-> {}, recently_closed_allocations |-> {}]}

(* Mutant: the conversion is complete and returns the allocation. *)
allocation_from_complete(fragment) == [panicked |-> FALSE, id |-> fragment]

(* impl From<AllocationFragment> for Allocation: the id is parsed, and the  *)
(* evaluation of the next fields reaches todo!(), which panics.             *)
allocation_from(fragment) == [panicked |-> TRUE, id |-> fragment]

(* Mutant: a null indexer is read as an indexer without allocations. *)
refresh_null_as_empty(response) ==
    IF response.kind = "QueryError" \/ response.kind = "ErrorResponse"
    THEN [ok |-> FALSE, panicked |-> FALSE, value |-> {}, error |-> response.kind]
    ELSE LET entries == {allocation_from(a) :
                            a \in response.active_allocations
                                  \cup response.recently_closed_allocations}
         IN [ok |-> \A entry \in entries : ~ entry.panicked,
             panicked |-> \E entry \in entries : entry.panicked,
             value |-> {entry.id : entry \in entries},
             error |-> "NoError"]

(* The closure of map_with_retry from the response on: an error of the      *)
(* query, an error response and a null indexer are errors; otherwise every  *)
(* allocation of the two lists is converted and the map built from them is  *)
(* the new value.                                                           *)
refresh(response) ==
    IF response.kind = "QueryError" \/ response.kind = "ErrorResponse"
    THEN [ok |-> FALSE, panicked |-> FALSE, value |-> {}, error |-> response.kind]
    ELSE IF ~ response.indexer
    THEN [ok |-> FALSE, panicked |-> FALSE, value |-> {}, error |-> "IndexerNotFound"]
    ELSE LET entries == {allocation_from(a) :
                            a \in response.active_allocations
                                  \cup response.recently_closed_allocations}
         IN [ok |-> \A entry \in entries : ~ entry.panicked,
             panicked |-> \E entry \in entries : entry.panicked,
             value |-> {entry.id : entry \in entries},
             error |-> "NoError"]

(* Mutant: the retry waits a whole interval. *)
retry_delay_whole(interval) == interval

(* sleep(interval.div_f32(2.0)) *)
retry_delay(interval) == interval \div 2

FeedIdle ==
    /\ feed = [pc |-> "timer", wake |-> 0, tick |-> 0, closed_at_threshold |-> 0,
               response |-> NoResponse, error |-> "NoError", failures |-> 0,
               published |-> FALSE]
    /\ network = [indexer |-> TRUE, allocations |-> [a \in Allocs |-> NoAllocation]]
    /\ clock = ClosedBuffer

(* The start of the closure, run for a tick of timer(interval) or again     *)
(* after the sleep that follows an error: the threshold is taken from the   *)
(* clock and the query is sent.                                             *)
StartQuery ==
    /\ feed.pc \in {"timer", "retry"}
    /\ clock >= feed.wake
    /\ feed' = [feed EXCEPT !.pc = "query",
                            !.tick = IF feed.pc = "timer" THEN clock ELSE feed.tick,
                            !.closed_at_threshold = clock - ClosedBuffer]
    /\ UNCHANGED <<indexer_allocations, escrow_accounts, call, network, clock,
                   dbVars, actorVars>>

(* The rest of the closure, on the response of the network subgraph: the    *)
(* new value is written to the Eventual, or the error handler logs and      *)
(* sleeps before the closure is run again; a panic ends the loop.           *)
Refresh(response) ==
    /\ feed.pc = "query"
    /\ response \in Responses(network, feed.closed_at_threshold)
    /\ LET result == refresh(response) IN
       IF result.panicked
       THEN /\ feed' = [feed EXCEPT !.pc = "panicked", !.response = response]
            /\ UNCHANGED indexer_allocations
       ELSE IF result.ok
       THEN /\ feed' = [feed EXCEPT !.pc = "timer", !.response = response,
                                    !.wake = feed.tick + Interval,
                                    !.error = "NoError", !.failures = 0,
                                    !.published = TRUE]
            /\ indexer_allocations' = result.value
       ELSE /\ feed.failures < MaxFailures
            /\ feed' = [feed EXCEPT !.pc = "retry", !.response = response,
                                    !.wake = clock + retry_delay(Interval),
                                    !.error = result.error,
                                    !.failures = feed.failures + 1]
            /\ UNCHANGED indexer_allocations
    /\ UNCHANGED <<escrow_accounts, call, network, clock, dbVars, actorVars>>

(* Time passes. *)
AdvanceClock ==
    /\ clock < MaxClock
    /\ clock' = clock + 1
    /\ UNCHANGED <<indexer_allocations, escrow_accounts, call, feed, network,
                   dbVars, actorVars>>

(* The indexer opens an allocation on the network. *)
OpenAllocation(a) ==
    /\ network.allocations[a].status = "None"
    /\ network' = [network EXCEPT !.allocations[a] = ActiveAllocation]
    /\ UNCHANGED <<indexer_allocations, escrow_accounts, call, feed, clock,
                   dbVars, actorVars>>

(* An allocation is closed on the network, now. *)
CloseOnNetwork(a) ==
    /\ network.allocations[a].status = "Active"
    /\ network' = [network EXCEPT !.allocations[a] = ClosedAllocation(clock)]
    /\ UNCHANGED <<indexer_allocations, escrow_accounts, call, feed, clock,
                   dbVars, actorVars>>

(* The network subgraph gains or loses its record of the indexer. *)
IndexIndexer ==
    /\ network' = [network EXCEPT !.indexer = ~ network.indexer]
    /\ UNCHANGED <<indexer_allocations, escrow_accounts, call, feed, clock,
                   dbVars, actorVars>>

----------------------------------------------------------------------------
(* The Sender-Allocation actor of the pair (ALLOCATION_ID_0, SENDER) *)

ALLOCATION_ID_0 == "A1"
SENDER == "S1"
SIGNER == "K1"

(* tap.rav_request_timestamp_buffer_ms, in timestamp units *)
Buffer == 1

NoMessage == [type |-> "NoMessage"]
NoRav     == [present |-> FALSE]
NoReply   == [sent |-> FALSE]
NoError   == "NoError"

(* UnaggregatedReceipts::default() *)
UnaggregatedReceiptsDefault == [last_id |-> 0, value |-> 0]

(* Mutant: the message carries no fees. *)
UpdateReceiptFees_empty(allocation_id, fees) ==
    [type |-> "UpdateReceiptFees", allocation_id |-> allocation_id,
     fees |-> [last_id |-> 0, value |-> 0]]

(* SenderAccountMessage::UpdateReceiptFees(allocation_id, unaggregated_fees) *)
UpdateReceiptFees(allocation_id, fees) ==
    [type |-> "UpdateReceiptFees", allocation_id |-> allocation_id, fees |-> fees]

(* signers_trimmed(&escrow_accounts, sender) *)
signers_trimmed(accounts, sender) ==
    IF sender \in DOMAIN accounts.signers THEN accounts.signers[sender] ELSE {}

RECURSIVE SumValues(_)
SumValues(rows) ==
    IF rows = {} THEN 0
    ELSE LET row == CHOOSE r \in rows : TRUE
         IN row.value + SumValues(rows \ {row})

MaxOf(numbers) == CHOOSE n \in numbers : \A m \in numbers : m <= n

(* Mutant: the aggregate query without its signer_address filter. *)
Unaggregated_any_signer(table, rav_row, signer_set) ==
    {row \in table :
        /\ row.allocation_id = ALLOCATION_ID_0
        /\ (rav_row.present => row.timestamp_ns > rav_row.timestamp_ns)}

(* The WHERE clause of the aggregate query: the pair's rows, newer than the *)
(* stored RAV when there is one.                                            *)
Unaggregated(table, rav_row, signer_set) ==
    {row \in table :
        /\ row.allocation_id = ALLOCATION_ID_0
        /\ row.signer_address \in signer_set
        /\ (rav_row.present => row.timestamp_ns > rav_row.timestamp_ns)}

(* tap_manager.remove_obsolete_receipts(): the pair's rows not newer than   *)
(* the stored RAV are deleted.                                              *)
remove_obsolete_receipts(table, rav_row, signer_set) ==
    IF ~ rav_row.present THEN table
    ELSE {row \in table :
            ~ (/\ row.allocation_id = ALLOCATION_ID_0
               /\ row.signer_address \in signer_set
               /\ row.timestamp_ns <= rav_row.timestamp_ns)}

(* An Option<T> is the empty set (None) or a singleton (Some). *)
None == {}
Some(v) == {v}
unwrap_or(option, default) ==
    IF option = None THEN default ELSE CHOOSE v \in option : TRUE

(* The row SELECT MAX(id), SUM(value) returns over the matching rows: both  *)
(* aggregates are NULL when no row matches.                                 *)
aggregate(rows) ==
    IF rows = {} THEN [max |-> None, sum |-> None]
    ELSE [max |-> Some(MaxOf({row.id : row \in rows})),
          sum |-> Some(SumValues(rows))]

(* Mutant: the ensure! on the two aggregates is left out. *)
unaggregated_receipts_unchecked(res) ==
    IF unwrap_or(res.sum, 0) > U128_MAX
    THEN [ok |-> FALSE, fees |-> UnaggregatedReceiptsDefault, error |-> "ParseIntError"]
    ELSE [ok |-> TRUE, error |-> NoError,
          fees |-> [last_id |-> unwrap_or(res.max, 0),
                    value |-> unwrap_or(res.sum, 0)]]

(* The end of calculate_unaggregated_fee: both aggregates are NULL or       *)
(* neither is, and the sum must parse as a u128.                            *)
unaggregated_receipts(res) ==
    IF (res.sum = None) # (res.max = None)
    THEN [ok |-> FALSE, fees |-> UnaggregatedReceiptsDefault, error |-> "ExactlyOneNull"]
    ELSE IF unwrap_or(res.sum, 0) > U128_MAX
    THEN [ok |-> FALSE, fees |-> UnaggregatedReceiptsDefault, error |-> "ParseIntError"]
    ELSE [ok |-> TRUE, error |-> NoError,
          fees |-> [last_id |-> unwrap_or(res.max, 0),
                    value |-> unwrap_or(res.sum, 0)]]

(* Mutant: the state is reset instead of being recomputed. *)
calculate_unaggregated_fee_reset(table, rav_row, signer_set) ==
    [ok |-> TRUE, error |-> NoError, fees |-> UnaggregatedReceiptsDefault]

(* calculate_unaggregated_fee, on the table left by remove_obsolete_receipts *)
calculate_unaggregated_fee(table, rav_row, signer_set) ==
    unaggregated_receipts(aggregate(Unaggregated(table, rav_row, signer_set)))

(* Mutant: the sum wraps around instead of being clamped. *)
checked_add_wrapping(value, fees) == (value + fees) % (U128_MAX + 1)

(* Mutant: the receipt's value overwrites the total. *)
checked_add_overwrite(value, fees) == fees

(* u128::checked_add(..).unwrap_or_else(|| u128::MAX) *)
checked_add_or_max(value, fees) ==
    IF value + fees > U128_MAX THEN U128_MAX ELSE value + fees

(* Mutant: the guard is id >= last_id. *)
is_new_ge(id, last_id) == id >= last_id

(* The guard of the NewReceipt handler: id > unaggregated_fees.last_id *)
is_new(id, last_id) == id > last_id

(* Mutant: a message is taken while another one is being handled. *)
mailbox_ready_always(message) == TRUE

(* The actor takes its next message when the handler of the previous one    *)
(* has returned: handle holds the state by exclusive reference.             *)
mailbox_ready(message) == message = NoMessage

Signers == signers_trimmed(escrow_accounts, SENDER)

(* pre_start, given the row the aggregate query returns: the state is built *)
(* from it and pushed to the parent; a failed computation fails the start.  *)
PreStartOn(res) ==
    /\ status = "unstarted"
    /\ receipts' = remove_obsolete_receipts(receipts, rav, Signers)
    /\ aggregate_row' = res
    /\ IF unaggregated_receipts(res).ok
       THEN /\ unaggregated_fees' = unaggregated_receipts(res).fees
            /\ sender_account_mailbox' =
                  Append(sender_account_mailbox,
                         UpdateReceiptFees(ALLOCATION_ID_0,
                                           unaggregated_receipts(res).fees))
            /\ status' = "running"
       ELSE /\ status' = "failed"
            /\ UNCHANGED <<unaggregated_fees, sender_account_mailbox>>
    /\ error' = unaggregated_receipts(res).error
    /\ started_fresh' = (receipts = {} /\ ~ rav.present)
    /\ stored_at_start' = {row.id : row \in receipts}
    /\ UNCHANGED <<admitVars, next_id, notifications, rav, current, totals, reply,
                   envVars, added, delivered_in_order, rav_requests_failed,
                   rav_requests_in_progress, updated_rows, receipts_invalid>>

(* pre_start on the database as it is *)
PreStart ==
    PreStartOn(aggregate(Unaggregated(remove_obsolete_receipts(receipts, rav, Signers),
                                      rav, Signers)))

(* A receipt of the pair is stored (the last step of an admission). *)
StoreReceipt(timestamp_ns, value) ==
    /\ next_id <= MaxReceipts
    /\ InsertReceipt(SignedReceipt(Receipt(ALLOCATION_ID_0, 1, timestamp_ns, value), SIGNER))
    /\ UNCHANGED <<admitVars, actorVars>>

(* SenderAllocationMessage::NewReceipt(NewReceiptNotification) *)
NewReceipt(n) ==
    [type |-> "NewReceipt", id |-> n.id, value |-> n.value,
     timestamp_ns |-> n.timestamp_ns]

InOrder(id) ==
    IF delivered_in_order >= 0 /\ id > delivered_in_order THEN id ELSE -1

(* A notification in flight reaches the actor's mailbox; notifications of   *)
(* distinct receipts may arrive in any order.                               *)
Deliver(n) ==
    /\ status = "running" /\ mailbox_ready(current)
    /\ n \in notifications
    /\ notifications' = notifications \ {n}
    /\ current' = NewReceipt(n)
    /\ delivered_in_order' = InOrder(n.id)
    /\ UNCHANGED <<admitVars, receipts, next_id, rav, status, unaggregated_fees,
                   parentVars, envVars, added, started_fresh, stored_at_start,
                   requestVars>>

(* A notification reaches the actor and stays in flight: it will be         *)
(* delivered once more.                                                     *)
DeliverDuplicate(n) ==
    /\ status = "running" /\ mailbox_ready(current)
    /\ n \in notifications
    /\ duplicates < MaxDuplicates
    /\ duplicates' = duplicates + 1
    /\ current' = NewReceipt(n)
    /\ delivered_in_order' = InOrder(n.id)
    /\ UNCHANGED <<admitVars, dbVars, rav, status, unaggregated_fees, parentVars,
                   triggers, restarted, added, started_fresh, stored_at_start,
                   requestVars>>

(* handle(NewReceipt { id, value, .. }) *)
HandleNewReceipt ==
    /\ status = "running" /\ current.type = "NewReceipt"
    /\ IF is_new(current.id, unaggregated_fees.last_id)
       THEN LET fees == [last_id |-> current.id,
                         value |-> checked_add_or_max(unaggregated_fees.value,
                                                      current.value)]
            IN /\ unaggregated_fees' = fees
               /\ sender_account_mailbox' =
                     Append(sender_account_mailbox,
                            UpdateReceiptFees(ALLOCATION_ID_0, fees))
               /\ added' = added \cup {current.id}
       ELSE UNCHANGED <<unaggregated_fees, sender_account_mailbox, added>>
    /\ current' = NoMessage
    /\ UNCHANGED <<admitVars, dbVars, rav, status, totals, reply, envVars,
                   started_fresh, delivered_in_order, stored_at_start, requestVars>>

(* The parent sends TriggerRAVRequest(reply). *)
Trigger ==
    /\ status = "running" /\ mailbox_ready(current)
    /\ triggers < MaxTriggers
    /\ triggers' = triggers + 1
    /\ current' = [type |-> "TriggerRAVRequest", pc |-> "start", time |-> 0,
                   valid |-> {}, expected |-> NoRav]
    /\ UNCHANGED <<admitVars, dbVars, rav, status, unaggregated_fees, parentVars,
                   duplicates, restarted, ghostVars, requestVars>>

(* The parent sends CloseAllocation. *)
Close ==
    /\ status = "running" /\ mailbox_ready(current)
    /\ current' = [type |-> "CloseAllocation", pc |-> "start", time |-> 0,
                   valid |-> {}, expected |-> NoRav]
    /\ UNCHANGED <<admitVars, dbVars, rav, status, unaggregated_fees, parentVars,
                   envVars, ghostVars, requestVars>>

(* Mutant: the receipts newer than the buffer are aggregated too. *)
valid_receipts_unbuffered(table, rav_row, signer_set, time) ==
    Unaggregated(table, rav_row, signer_set)

(* create_rav_request(buffer, None): the pair's rows newer than the         *)
(* previous RAV and not newer than now - buffer.                            *)
valid_receipts(table, rav_row, signer_set, time) ==
    {row \in Unaggregated(table, rav_row, signer_set) :
        row.timestamp_ns <= time - Buffer}

(* Mutant: the expected RAV forgets the previous aggregate. *)
expected_rav_fresh(rows, rav_row) ==
    [present |-> TRUE,
     timestamp_ns |-> MaxOf({row.timestamp_ns : row \in rows}),
     value_aggregate |-> SumValues(rows),
     last |-> FALSE]

(* expected_rav: the newest aggregated timestamp, and the previous          *)
(* aggregate plus the values aggregated now.                                *)
expected_rav(rows, rav_row) ==
    [present |-> TRUE,
     timestamp_ns |-> MaxOf({row.timestamp_ns : row \in rows}),
     value_aggregate |->
        (IF rav_row.present THEN rav_row.value_aggregate ELSE 0) + SumValues(rows),
     last |-> FALSE]

(* tap_manager.create_rav_request: it fails when there is no valid receipt  *)
(* (NoValidReceiptsForRAVRequest) and when the aggregate does not fit a     *)
(* u128.                                                                    *)
create_rav_request(table, rav_row, signer_set, time) ==
    LET rows == valid_receipts(table, rav_row, signer_set, time) IN
    IF rows = {}
    THEN [ok |-> FALSE, valid |-> {}, expected |-> NoRav,
          error |-> "NoValidReceiptsForRAVRequest"]
    ELSE IF expected_rav(rows, rav_row).value_aggregate > U128_MAX
    THEN [ok |-> FALSE, valid |-> rows, expected |-> NoRav,
          error |-> "AggregateOverflow"]
    ELSE [ok |-> TRUE, valid |-> rows, expected |-> expected_rav(rows, rav_row),
          error |-> NoError]

(* What the aggregator call and verify_and_store_rav can come to. *)
RavOutcomes ==
    {"Ok", "RpcError", "AdapterError", "InvalidReceivedRAV", "SignatureError",
     "InvalidRecoveredSigner", "OtherError"}

(* Mutant: an adapter error is recorded as a failed RAV request too. *)
stores_failed_rav_adapter(outcome) ==
    outcome \in {"AdapterError", "InvalidReceivedRAV", "SignatureError",
                 "InvalidRecoveredSigner"}

(* The errors of verify_and_store_rav after which store_failed_rav runs. *)
stores_failed_rav(outcome) ==
    outcome \in {"InvalidReceivedRAV", "SignatureError", "InvalidRecoveredSigner"}

(* store_failed_rav(expected_rav, rav, reason) *)
FailedRav(expected, reason) ==
    [allocation_id |-> ALLOCATION_ID_0, sender_address |-> SENDER,
     expected_rav |-> expected, reason |-> reason]

(* What SystemTime::now() can return when a request is created: the wall   *)
(* clock is not monotonic, and it is followed until the newest timestamp   *)
(* is older than the buffer.                                               *)
Times == 0..(MaxOf(Timestamps) + Buffer)

(* A row of scalar_tap_receipts_invalid: the columns store_invalid_receipts  *)
(* writes, under the table's own serial.                                    *)
InvalidRow(id, row) ==
    [id |-> id,
     signer_address |-> row.signer_address,
     signature      |-> row.signature,
     allocation_id  |-> row.allocation_id,
     timestamp_ns   |-> row.timestamp_ns,
     nonce          |-> row.signature.digest.nonce,
     value          |-> row.value]

(* The rows with a smaller id: the position of a row in the slice. *)
Before(rows, row) == Cardinality({other \in rows : other.id < row.id})

(* Mutant: a failed insert of an invalid receipt is passed over. *)
store_invalid_receipts_lenient(table, invalid_receipts, persisted) ==
    [ok |-> TRUE,
     table |-> table \cup {InvalidRow(Cardinality(table) + 1 + Before(persisted, row), row) :
                              row \in persisted},
     error |-> NoError]

(* store_invalid_receipts(invalid_receipts): one INSERT per receipt, in     *)
(* the order of the slice; the first one that fails ends the loop with an   *)
(* error.  persisted are the receipts whose INSERT succeeded.               *)
store_invalid_receipts(table, invalid_receipts, persisted) ==
    [ok |-> persisted = invalid_receipts,
     table |-> table \cup {InvalidRow(Cardinality(table) + 1 + Before(persisted, row), row) :
                              row \in persisted},
     error |-> IF persisted = invalid_receipts THEN NoError
               ELSE "StoreInvalidReceiptsError"]

(* rav_requester_single up to the aggregator call, for TriggerRAVRequest    *)
(* and CloseAllocation alike, at the time the clock shows: the request is   *)
(* created over the receipts that pass the checks, the receipts that fail   *)
(* them (invalid_receipts) are persisted, the client is built and           *)
(* aggregate_receipts is sent.  An error of any of these steps is returned  *)
(* by the handler and ends the actor.                                       *)
BeginRAVRequestOn(time, invalid_receipts, persisted, client_built) ==
    /\ status = "running"
    /\ current.type \in {"TriggerRAVRequest", "CloseAllocation"}
    /\ current.pc = "start"
    /\ time \in Times
    /\ invalid_receipts \subseteq valid_receipts(receipts, rav, Signers, time)
    /\ persisted \subseteq invalid_receipts
    /\ LET req == create_rav_request(receipts \ invalid_receipts, rav, Signers, time)
           stored == store_invalid_receipts(receipts_invalid, invalid_receipts,
                                            persisted)
       IN IF ~ req.ok
          THEN /\ status' = "failed"
               /\ current' = NoMessage
               /\ error' = req.error
               /\ UNCHANGED <<rav_requests_in_progress, receipts_invalid>>
          ELSE IF ~ stored.ok \/ ~ client_built
          THEN /\ status' = "failed"
               /\ current' = NoMessage
               /\ error' = IF ~ stored.ok THEN stored.error ELSE "ClientBuildError"
               /\ receipts_invalid' = stored.table
               /\ UNCHANGED rav_requests_in_progress
          ELSE /\ current' = [current EXCEPT !.pc = "rpc", !.time = time,
                                             !.valid = req.valid,
                                             !.expected = req.expected]
               /\ rav_requests_in_progress' = rav_requests_in_progress + 1
               /\ receipts_invalid' = stored.table
               /\ error' = NoError
               /\ UNCHANGED status
    /\ UNCHANGED <<admitVars, dbVars, rav, unaggregated_fees, parentVars, envVars,
                   ghostVars, aggregate_row, rav_requests_failed, updated_rows>>

(* rav_requester_single up to the aggregator call when every receipt of    *)
(* the pair passes the checks and the client is built.                     *)
BeginRAVRequest(time) == BeginRAVRequestOn(time, {}, {}, TRUE)

(* Mutant: the state is recomputed from the database after a failed        *)
(* request too.                                                             *)
RAVRequestFailed_recomputed(outcome) ==
    /\ outcome # "Ok"
    /\ status' = "failed"
    /\ error' = outcome
    /\ rav_requests_failed' =
          IF stores_failed_rav(outcome)
          THEN rav_requests_failed \cup {FailedRav(current.expected, outcome)}
          ELSE rav_requests_failed
    /\ unaggregated_fees' = calculate_unaggregated_fee(receipts, rav, Signers).fees
    /\ UNCHANGED <<receipts, rav, reply, aggregate_row,
                   sender_account_mailbox, updated_rows, receipts_invalid>>

(* The writes of a RAV request that failed after the aggregator call. *)
RAVRequestFailed(outcome) ==
    /\ outcome # "Ok"
    /\ status' = "failed"
    /\ error' = outcome
    /\ rav_requests_failed' =
          IF stores_failed_rav(outcome)
          THEN rav_requests_failed \cup {FailedRav(current.expected, outcome)}
          ELSE rav_requests_failed
    /\ UNCHANGED <<receipts, rav, unaggregated_fees, reply, aggregate_row,
                   sender_account_mailbox, updated_rows, receipts_invalid>>

(* handle(TriggerRAVRequest(reply)) from the aggregator's response on: the  *)
(* RAV is verified and stored, the state is recomputed and sent on the      *)
(* reply port unless the caller has closed it by then.  An error is         *)
(* returned to the supervisor and ends the actor.                           *)
HandleTriggerRAVRequest(outcome, reply_open) ==
    /\ status = "running"
    /\ current.type = "TriggerRAVRequest" /\ current.pc = "rpc"
    /\ rav_requests_in_progress' = rav_requests_in_progress - 1
    /\ \/ RAVRequestFailed(outcome) /\ ~ reply_open   \* the port is not looked at
       \/ /\ outcome = "Ok"
          /\ LET table == remove_obsolete_receipts(receipts, current.expected, Signers)
                  res == calculate_unaggregated_fee(table, current.expected, Signers)
             IN /\ rav' = current.expected
                /\ receipts' = table
                /\ UNCHANGED aggregate_row
                /\ error' = res.error
                /\ IF ~ res.ok
                   THEN /\ status' = "failed"
                        /\ UNCHANGED <<unaggregated_fees, reply>>
                   ELSE /\ unaggregated_fees' = res.fees
                        /\ reply' = IF reply_open
                                    THEN [sent |-> TRUE, fees |-> res.fees]
                                    ELSE reply
                        /\ UNCHANGED status
          /\ UNCHANGED <<rav_requests_failed, sender_account_mailbox, updated_rows,
                         receipts_invalid>>
    /\ current' = NoMessage
    /\ UNCHANGED <<admitVars, next_id, notifications, totals, envVars, ghostVars>>

(* Mutant: only an UPDATE that matched no row is an error. *)
mark_rav_last_some(rav_row, rows_affected) ==
    [ok |-> rows_affected >= 1,
     rav |-> IF rows_affected = 0 THEN NoRav ELSE [rav_row EXCEPT !.last = TRUE],
     error |-> IF rows_affected >= 1 THEN NoError ELSE "UpdatedRowsNotOne"]

(* mark_rav_last, given the number of rows its UPDATE matched: every        *)
(* matching row is marked, and any number of them but one is an error.      *)
mark_rav_last(rav_row, rows_affected) ==
    [ok |-> rows_affected = 1,
     rav |-> IF rows_affected = 0 THEN NoRav ELSE [rav_row EXCEPT !.last = TRUE],
     error |-> IF rows_affected = 1 THEN NoError ELSE "UpdatedRowsNotOne"]

(* The pair's rows in scalar_tap_ravs once the RAV has been upserted. *)
rows_of_pair(rav_row) == IF rav_row.present THEN 1 ELSE 0

(* Mutant: the stored RAV is marked whether the final request succeeded or  *)
(* not.                                                                     *)
HandleCloseAllocationOn_marks_anyway(outcome, rows_affected) ==
    /\ status = "running"
    /\ current.type = "CloseAllocation" /\ current.pc = "rpc"
    /\ rav_requests_in_progress' = rav_requests_in_progress - 1
    /\ LET stored == IF outcome = "Ok" THEN current.expected ELSE rav
           marked == mark_rav_last(stored, rows_affected)
       IN /\ rav' = IF stored.present THEN marked.rav ELSE rav
          /\ updated_rows' = Some(rows_affected)
          /\ error' = IF outcome # "Ok" THEN outcome ELSE marked.error
          /\ status' = IF outcome = "Ok" /\ marked.ok THEN "stopping" ELSE "failed"
          /\ rav_requests_failed' =
                IF stores_failed_rav(outcome)
                THEN rav_requests_failed \cup {FailedRav(current.expected, outcome)}
                ELSE rav_requests_failed
    /\ UNCHANGED <<receipts, unaggregated_fees, reply, aggregate_row,
                   sender_account_mailbox, receipts_invalid>>
    /\ current' = NoMessage
    /\ UNCHANGED <<admitVars, next_id, notifications, totals, envVars, ghostVars>>

(* handle(CloseAllocation) from the aggregator's response on, given the     *)
(* number of rows the UPDATE of mark_rav_last matches: the RAV is verified  *)
(* and stored, the pair's RAV row is marked as the last one and the actor   *)
(* asks to be stopped.  An error is returned to the supervisor and ends the *)
(* actor.                                                                   *)
HandleCloseAllocationOn(outcome, rows_affected) ==
    /\ status = "running"
    /\ current.type = "CloseAllocation" /\ current.pc = "rpc"
    /\ rav_requests_in_progress' = rav_requests_in_progress - 1
    /\ \/ RAVRequestFailed(outcome)
       \/ /\ outcome = "Ok"
          /\ LET marked == mark_rav_last(current.expected, rows_affected) IN
             /\ rav' = marked.rav
             /\ updated_rows' = Some(rows_affected)
             /\ error' = marked.error
             /\ status' = IF marked.ok THEN "stopping" ELSE "failed"
          /\ UNCHANGED <<receipts, unaggregated_fees, reply, aggregate_row,
                         rav_requests_failed, sender_account_mailbox,
                         receipts_invalid>>
    /\ current' = NoMessage
    /\ UNCHANGED <<admitVars, next_id, notifications, totals, envVars, ghostVars>>

(* handle(CloseAllocation) on the RAV table as the upsert left it *)
HandleCloseAllocation(outcome) ==
    HandleCloseAllocationOn(outcome, rows_of_pair(current.expected))

(* Mutant: post_stop pushes the state the actor holds. *)
post_stop_fees_held(fees) == fees

(* The fees post_stop pushes, whatever the actor holds:                     *)
(* UnaggregatedReceipts::default().                                         *)
post_stop_fees(fees) == UnaggregatedReceiptsDefault

(* post_stop: the pair's fees are cleared with the parent. *)
PostStop ==
    /\ status = "stopping"
    /\ sender_account_mailbox' =
          Append(sender_account_mailbox,
                 UpdateReceiptFees(ALLOCATION_ID_0, post_stop_fees(unaggregated_fees)))
    /\ status' = "stopped"
    /\ UNCHANGED <<admitVars, dbVars, rav, current, unaggregated_fees, totals, reply,
                   envVars, ghostVars, requestVars>>

(* The supervisor stops the actor: the stop is taken between two messages,  *)
(* and post_stop runs after it.                                             *)
Stop ==
    /\ status = "running" /\ mailbox_ready(current)
    /\ status' = "stopping"
    /\ UNCHANGED <<admitVars, dbVars, rav, current, unaggregated_fees, parentVars,
                   envVars, ghostVars, requestVars>>

(* The supervisor starts a new actor for the pair, once, after the previous *)
(* one has stopped or failed.  unaggregated_fees and error keep what the    *)
(* previous actor held and how it ended until the pre_start of the new one  *)
(* assigns them.                                                            *)
Restart ==
    /\ status \in {"stopped", "failed"}
    /\ ~ restarted
    /\ restarted' = TRUE
    /\ status' = "unstarted"
    /\ UNCHANGED <<admitVars, dbVars, rav, current, unaggregated_fees, parentVars,
                   duplicates, triggers, ghostVars, requestVars>>

(* The parent handles the oldest UpdateReceiptFees(allocation, fees):       *)
(* totals[allocation] = fees.                                               *)
SenderAccountReceive ==
    /\ sender_account_mailbox # <<>>
    /\ totals' = Head(sender_account_mailbox).fees
    /\ sender_account_mailbox' = Tail(sender_account_mailbox)
    /\ UNCHANGED <<admitVars, dbVars, rav, stateVars, reply, envVars, ghostVars,
                   requestVars>>

ActorIdle ==
    /\ status = "unstarted"
    /\ current = NoMessage
    /\ unaggregated_fees = UnaggregatedReceiptsDefault
    /\ rav = NoRav
    /\ sender_account_mailbox = <<>>
    /\ totals = UnaggregatedReceiptsDefault
    /\ reply = NoReply
    /\ duplicates = 0
    /\ triggers = 0
    /\ added = {}
    /\ started_fresh = FALSE
    /\ delivered_in_order = 0
    /\ stored_at_start = {}
    /\ aggregate_row = [max |-> None, sum |-> None]
    /\ rav_requests_failed = {}
    /\ receipts_invalid = {}
    /\ rav_requests_in_progress = 0
    /\ error = NoError
    /\ updated_rows = None
    /\ restarted = FALSE

PairEscrow == [balances |-> [s \in {SENDER} |-> 1], signers |-> SignerMap]

Init ==
    /\ indexer_allocations = {ALLOCATION_ID_0}
    /\ escrow_accounts = PairEscrow
    /\ call = [t \in Tasks |-> NoCall]
    /\ FeedIdle
    /\ receipts = {}
    /\ next_id = 1
    /\ notifications = {}
    /\ ActorIdle

(* The parent handles a message cast to it before the system takes its     *)
(* next step: nothing but the parent reads its mailbox or totals, so its    *)
(* step commutes with every other one and the interleavings left out reach  *)
(* no further state of the actor or the tables.                             *)
ParentIdle == sender_account_mailbox = <<>>

ActorStep ==
    \/ PreStart
    \/ HandleNewReceipt
    \/ \E time \in Times : BeginRAVRequest(time)
    \/ \E outcome \in RavOutcomes : \E reply_open \in BOOLEAN :
          HandleTriggerRAVRequest(outcome, reply_open)
    \/ \E outcome \in RavOutcomes : HandleCloseAllocation(outcome)
    \/ PostStop

Next ==
    \/ SenderAccountReceive
    \/ ParentIdle /\ ActorStep
    \/ ParentIdle /\ \E timestamp_ns \in Timestamps : \E value \in Values :
          StoreReceipt(timestamp_ns, value)
    \/ ParentIdle /\ \E n \in notifications : Deliver(n)
    \/ ParentIdle /\ \E n \in notifications : DeliverDuplicate(n)
    \/ ParentIdle /\ Trigger
    \/ ParentIdle /\ Close

Spec == Init /\ [][Next]_vars

(* The actor makes progress on the message it handles, and the parent on    *)
(* its mailbox: both run on the async runtime.                              *)
FairSpec ==
    /\ Spec
    /\ WF_vars(ParentIdle /\ ActorStep)
    /\ WF_vars(SenderAccountReceive)

(* The actor under its supervisor: it may be stopped, and a new actor may   *)
(* be started for the pair after a stop or a failure.  No notification is   *)
(* delivered twice.                                                         *)
NextLife ==
    \/ SenderAccountReceive
    \/ ParentIdle /\ ActorStep
    \/ ParentIdle /\ \E timestamp_ns \in Timestamps : \E value \in Values :
          StoreReceipt(timestamp_ns, value)
    \/ ParentIdle /\ \E n \in notifications : Deliver(n)
    \/ ParentIdle /\ Trigger
    \/ ParentIdle /\ Close
    \/ ParentIdle /\ Stop
    \/ ParentIdle /\ Restart

SpecLife == Init /\ [][NextLife]_vars

----------------------------------------------------------------------------
(* calculate_unaggregated_fee on bounded tables: the actor starts on a      *)
(* table that holds rows of several allocations and signers, with or        *)
(* without a stored RAV.                                                    *)

StoredRow(id, allocation_id, key, timestamp_ns, value) ==
    Row(id, SignedReceipt(Receipt(allocation_id, 1, timestamp_ns, value), key))

MaxRows == 3

(* The tables of at most rows rows, with or without a stored RAV. *)
InitTables(rows) ==
    /\ indexer_allocations = {ALLOCATION_ID_0}
    /\ escrow_accounts = PairEscrow
    /\ call = [t \in Tasks |-> NoCall]
    /\ FeedIdle
    /\ \E n \in 0..rows :
         \E f \in [1..n -> [allocation_id : Allocs, key : Addrs,
                            timestamp_ns : Timestamps, value : Values]] :
            /\ receipts = {StoredRow(id, f[id].allocation_id, f[id].key,
                                     f[id].timestamp_ns, f[id].value) : id \in 1..n}
            /\ next_id = n + 1
    /\ notifications = {}
    /\ status = "unstarted"
    /\ current = NoMessage
    /\ unaggregated_fees = UnaggregatedReceiptsDefault
    /\ rav \in {NoRav} \cup
               {[present |-> TRUE, timestamp_ns |-> t, value_aggregate |-> 1,
                 last |-> FALSE] : t \in Timestamps}
    /\ sender_account_mailbox = <<>>
    /\ totals = UnaggregatedReceiptsDefault
    /\ reply = NoReply
    /\ duplicates = 0
    /\ triggers = 0
    /\ added = {}
    /\ started_fresh = FALSE
    /\ delivered_in_order = 0
    /\ stored_at_start = {}
    /\ aggregate_row = [max |-> None, sum |-> None]
    /\ rav_requests_failed = {}
    /\ receipts_invalid = {}
    /\ rav_requests_in_progress = 0
    /\ error = NoError
    /\ updated_rows = None
    /\ restarted = FALSE

InitCalc == InitTables(MaxRows)

NextCalc ==
    \/ PreStart
    \/ SenderAccountReceive

SpecCalc == InitCalc /\ [][NextCalc]_vars

----------------------------------------------------------------------------
(* The end of calculate_unaggregated_fee on every row the aggregate query   *)
(* could hand it, NULL in one column only included.                         *)

AggregateRows ==
    [max : {None} \cup {Some(id) : id \in 1..MaxRows},
     sum : {None} \cup {Some(v) : v \in 0..(U128_MAX + 1)}]

InitQuery == InitTables(1)

NextQuery ==
    \/ \E res \in AggregateRows : PreStartOn(res)
    \/ SenderAccountReceive

SpecQuery == InitQuery /\ [][NextQuery]_vars

----------------------------------------------------------------------------
(* Closing and stopping the actor, on a RAV table that other writers        *)
(* share: the UPDATE of mark_rav_last may match no row, one row or several. *)

RowsAffected == 0..2

NextClose ==
    \/ SenderAccountReceive
    \/ ParentIdle /\ PreStart
    \/ ParentIdle /\ \E timestamp_ns \in Timestamps : \E value \in Values :
          StoreReceipt(timestamp_ns, value)
    \/ ParentIdle /\ \E n \in notifications : Deliver(n)
    \/ ParentIdle /\ HandleNewReceipt
    \/ ParentIdle /\ Stop
    \/ ParentIdle /\ Close
    \/ ParentIdle /\ \E time \in Times : BeginRAVRequest(time)
    \/ ParentIdle /\ \E outcome \in RavOutcomes : \E rows_affected \in RowsAffected :
          HandleCloseAllocationOn(outcome, rows_affected)
    \/ ParentIdle /\ PostStop

SpecClose == Init /\ [][NextClose]_vars

----------------------------------------------------------------------------
(* The RAV request in full: receipts of the pair may fail the checks of     *)
(* create_rav_request, their persisting and the building of the client may  *)
(* fail, and the request is made for TriggerRAVRequest and CloseAllocation. *)
(* The notifications of the receipts stay in flight: the actor counts the   *)
(* receipts stored before its start, and not yet those stored after it.     *)

NextRequest ==
    \/ SenderAccountReceive
    \/ ParentIdle /\ PreStart
    \/ ParentIdle /\ \E timestamp_ns \in Timestamps : \E value \in Values :
          StoreReceipt(timestamp_ns, value)
    \/ ParentIdle /\ Trigger
    \/ ParentIdle /\ Close
    \/ ParentIdle /\ \E time \in Times : \E invalid_receipts \in SUBSET receipts :
          \E persisted \in SUBSET invalid_receipts : \E client_built \in BOOLEAN :
             BeginRAVRequestOn(time, invalid_receipts, persisted, client_built)
    \/ ParentIdle /\ \E outcome \in RavOutcomes : \E reply_open \in BOOLEAN :
          HandleTriggerRAVRequest(outcome, reply_open)
    \/ ParentIdle /\ \E outcome \in RavOutcomes : \E rows_affected \in RowsAffected :
          HandleCloseAllocationOn(outcome, rows_affected)
    \/ ParentIdle /\ PostStop

SpecRequest == Init /\ [][NextRequest]_vars

----------------------------------------------------------------------------
(* The allocations feed against a network whose allocations open and close  *)

InitFeed ==
    /\ indexer_allocations = {}
    /\ escrow_accounts = PairEscrow
    /\ call = [t \in Tasks |-> NoCall]
    /\ FeedIdle
    /\ receipts = {}
    /\ next_id = 1
    /\ notifications = {}
    /\ ActorIdle

NextFeed ==
    \/ StartQuery
    \/ \E response \in Responses(network, feed.closed_at_threshold) : Refresh(response)
    \/ AdvanceClock
    \/ \E a \in Allocs : OpenAllocation(a)
    \/ \E a \in Allocs : CloseOnNetwork(a)
    \/ IndexIndexer

SpecFeed == InitFeed /\ [][NextFeed]_vars

----------------------------------------------------------------------------
(* Specification of receipt admission *)

InitAdmit ==
    /\ indexer_allocations \in SUBSET Allocs
    /\ escrow_accounts \in EscrowValues
    /\ call = [t \in Tasks |-> NoCall]
    /\ FeedIdle
    /\ receipts = {}
    /\ next_id = 1
    /\ notifications = {}
    /\ ActorIdle

NextAdmit ==
    \/ \E t \in Tasks : \E receipt \in AdmitReceipts : Call(t, receipt)
    \/ \E t \in Tasks : CheckAllocation(t)
    \/ \E t \in Tasks : CheckSender(t)
    \/ \E t \in Tasks : Insert(t)
    \/ RefreshAllocations
    \/ RefreshEscrow

SpecAdmit == InitAdmit /\ [][NextAdmit]_vars

(* Specification of the uniqueness check: tasks store receipts, also ones   *)
(* that are stored already, and apply is_unique.                            *)
NextUnique ==
    \/ \E t \in Tasks, receipt \in AdmitReceipts : StoreToCheck(t, receipt)
    \/ \E t \in Tasks, receipt \in AdmitReceipts, receipt_id \in ReceiptIds :
         CallIsUnique(t, receipt, receipt_id)
    \/ \E t \in Tasks : IsUnique(t)

SpecUnique == InitAdmit /\ [][NextUnique]_vars

----------------------------------------------------------------------------
(* Admission and accounting together: ingress tasks admit receipts while    *)
(* the feeds refresh, and the actor of the pair is started and handles the  *)
(* notifications of the pair's rows.                                        *)

(* The notifications the pair's actor is sent: those of its allocation,     *)
(* signed by a signer of its sender.                                        *)
Routed(n) ==
    /\ n.allocation_id = ALLOCATION_ID_0
    /\ n.signer_address \in Signers

NextPipeline ==
    \/ NextAdmit
    \/ SenderAccountReceive
    \/ ParentIdle /\ PreStart
    \/ ParentIdle /\ \E n \in notifications : Routed(n) /\ Deliver(n)
    \/ ParentIdle /\ HandleNewReceipt

SpecPipeline == Init /\ [][NextPipeline]_vars

----------------------------------------------------------------------------
(* Properties of receipt admission (checked under SpecAdmit) *)

Returned(t) == call[t].pc = "returned"
PastAllocationCheck(t) == call[t].pc \in {"check_sender", "insert", "returned"}
PastSenderCheck(t) == call[t].saw_balance # "unread"
OkCalls == {t \in Tasks : Returned(t) /\ call[t].result = "Ok"}
RowsSigned(signature) == {row \in receipts : row.signature = signature}

(* C1: a call that found its receipt's allocation missing from the          *)
(* allocations feed has returned IneligibleAllocation, whatever the         *)
(* signature and the escrow state, and has inserted no row: the table holds *)
(* exactly one row per call that returned Ok.                               *)
C1_IneligibleAllocation ==
    /\ \A t \in Tasks :
         (PastAllocationCheck(t) /\ ~ call[t].saw_allocation)
            => (Returned(t) /\ call[t].result = "IneligibleAllocation")
    /\ Cardinality(receipts) = Cardinality(OkCalls)

(* C1 happens: a call was rejected as IneligibleAllocation although its     *)
(* signer holds a positive escrow balance, while another call's row is      *)
(* in the table.                                                            *)
C1_Witness ==
    \E t \in Tasks :
        /\ Returned(t) /\ call[t].result = "IneligibleAllocation"
        /\ Seen(escrow_accounts.balances, recover_signer(call[t].receipt)) = "positive"
        /\ Cardinality(receipts) = 1

(* C2: a call for an eligible allocation whose recovered signer had balance *)
(* 0 in the escrow feed has returned IneligibleSender and inserted no row.  *)
C2_IneligibleSender ==
    /\ \A t \in Tasks :
         call[t].saw_balance = "zero"
            => (Returned(t) /\ call[t].result = "IneligibleSender"
                /\ call[t].saw_allocation)
    /\ Cardinality(receipts) = Cardinality(OkCalls)

(* C2 happens: a call passed the allocation check and was rejected for a    *)
(* zero balance.                                                            *)
C2_Witness ==
    \E t \in Tasks :
        /\ call[t].saw_balance = "zero" /\ call[t].saw_allocation
        /\ call[t].result = "IneligibleSender"
        /\ receipts = {}

(* C3 (as claimed): at the sender check the signer s is resolved through    *)
(* the signers mapping; the call passes the check whenever s is in          *)
(* signers[S] for a sender S with a positive balance, and fails with        *)
(* UnknownSigner when s is in no sender's signer set.                       *)
C3_SignersMapping ==
    [][\A t \in Tasks :
         (call[t].pc = "check_sender" /\ call'[t].pc # "check_sender") =>
            LET s == recover_signer(call[t].receipt)
                balances == escrow_accounts.balances
                owners == {S \in DOMAIN escrow_accounts.signers :
                              s \in escrow_accounts.signers[S]}
            IN /\ (\E S \in owners : S \in DOMAIN balances /\ balances[S] > 0)
                     => call'[t].pc = "insert"
               /\ owners = {} => call'[t].result = "UnknownSigner"]_vars

(* C4 (as claimed): a row is inserted only at a moment when its allocation  *)
(* is in the allocations feed's current value and its signer's balance is   *)
(* positive in the escrow feed's current value.                             *)
C4_EligibleAtInsert ==
    [][\A row \in receipts' \ receipts :
          /\ row.allocation_id \in indexer_allocations
          /\ Seen(escrow_accounts.balances, row.signer_address) = "positive"]_vars

(* C4 (amended): every row was inserted by a call that returned Ok and      *)
(* that, when it read each feed, found the row's allocation in the          *)
(* allocations feed and a positive balance for the row's signer in the      *)
(* escrow feed.                                                             *)
C4_EligibleWhenChecked ==
    \A row \in receipts :
        \E t \in OkCalls :
            /\ Row(row.id, call[t].receipt) = row
            /\ call[t].saw_allocation
            /\ call[t].saw_balance = "positive"

(* C4 happens: two concurrent calls inserted their rows, and a row's        *)
(* allocation has left the allocations feed since.                          *)
C4_Witness ==
    /\ Cardinality(receipts) = 2
    /\ \E row \in receipts : row.allocation_id \notin indexer_allocations

(* C5 (as claimed): the same signed receipt admitted twice is stored once:  *)
(* one row and one notification per signature, and not both admissions      *)
(* return Ok.                                                               *)
C5_OneRowPerSignature ==
    /\ \A row1 \in receipts : \A row2 \in receipts :
          row1.signature = row2.signature => row1 = row2
    /\ \A row \in receipts :
          Cardinality({n \in notifications :
                          \E other \in RowsSigned(row.signature) : other.id = n.id}) <= 1
    /\ \A t \in OkCalls : \A u \in OkCalls :
          call[t].receipt = call[u].receipt => t = u

(* C5 (amended): every admission whose insert the database carries out      *)
(* returns Ok and stores its own row, also when the signature is already    *)
(* stored: per signed receipt the table holds as many rows as admissions    *)
(* of it returned Ok, under distinct ids, with one notification per row;    *)
(* StorageError is returned only when the insert itself failed.             *)
C5_OneRowPerAdmission ==
    /\ \A t \in Tasks :
          (Returned(t) /\ call[t].saw_balance = "positive")
             => /\ call[t].result \in {"Ok", "StorageError"}
                /\ call[t].result = "Ok" <=> call[t].io_ok
    /\ \A receipt \in AdmitReceipts :
          Cardinality(RowsSigned(receipt.signature))
             = Cardinality({t \in OkCalls : call[t].receipt = receipt})
    /\ \A row1 \in receipts : \A row2 \in receipts : row1.id = row2.id => row1 = row2
    /\ notifications = {Notification(row) : row \in receipts}

(* C5 happens: the same signed receipt was admitted twice and both          *)
(* admissions returned Ok.                                                   *)
C5_Witness ==
    \E t \in OkCalls : \E u \in OkCalls :
        /\ t # u
        /\ call[t].receipt = call[u].receipt
        /\ Cardinality(RowsSigned(call[t].receipt.signature)) = 2
        /\ Cardinality(notifications) = 2

----------------------------------------------------------------------------
(* Properties of the Sender-Allocation actor *)

(* The step in which the actor handles the NewReceipt it holds. *)
HandlesNewReceipt == current.type = "NewReceipt" /\ current' = NoMessage

(* The stored RAV covers the receipt the message is about. *)
Covered(message) == rav.present /\ message.timestamp_ns <= rav.timestamp_ns

Clamped(number) == IF number > U128_MAX THEN U128_MAX ELSE number

(* C6: a NewReceipt for an id that was delivered before adds nothing, and a *)
(* NewReceipt for a receipt the stored RAV already covers adds nothing, in  *)
(* whatever order NewReceipt and TriggerRAVRequest are handled.             *)
C6_AddedAtMostOnce ==
    [][(HandlesNewReceipt /\ (current.id \in added \/ Covered(current)))
          => unaggregated_fees' = unaggregated_fees]_vars

(* C7: handling NewReceipt {id, value}: when id > last_id, last_id becomes  *)
(* id, value grows by the receipt's value (clamped) and exactly one         *)
(* UpdateReceiptFees with the new state goes to the parent; otherwise the   *)
(* state is unchanged and no message is sent.                               *)
C7_NewReceiptHandler ==
    [][HandlesNewReceipt =>
          IF current.id > unaggregated_fees.last_id
          THEN /\ unaggregated_fees' =
                     [last_id |-> current.id,
                      value |-> Clamped(unaggregated_fees.value + current.value)]
               /\ sender_account_mailbox' =
                     sender_account_mailbox \o
                        <<[type |-> "UpdateReceiptFees",
                           allocation_id |-> ALLOCATION_ID_0,
                           fees |-> unaggregated_fees']>>
          ELSE /\ unaggregated_fees' = unaggregated_fees
               /\ sender_account_mailbox' = sender_account_mailbox]_vars

(* A stale NewReceipt is about to be handled after another one was added. *)
C7_Witness ==
    /\ current.type = "NewReceipt"
    /\ current.id <= unaggregated_fees.last_id
    /\ added # {}
    /\ totals.value > 0

(* C8: when the addition overflows, value is u128::MAX and the handler      *)
(* succeeds; at u128::MAX the value stays there under further NewReceipt    *)
(* messages; the value never wraps around.                                  *)
C8_ClampsAtMax ==
    [][HandlesNewReceipt =>
          /\ status' = "running"
          /\ unaggregated_fees'.value >= unaggregated_fees.value
          /\ unaggregated_fees'.value <= U128_MAX
          /\ (/\ current.id > unaggregated_fees.last_id
              /\ unaggregated_fees.value + current.value > U128_MAX)
                => unaggregated_fees'.value = U128_MAX
          /\ unaggregated_fees.value = U128_MAX
                => unaggregated_fees'.value = U128_MAX]_vars

(* The values added exceed u128::MAX and the actor runs with value at MAX. *)
C8_Witness ==
    /\ status = "running"
    /\ current = NoMessage
    /\ unaggregated_fees.value = U128_MAX
    /\ Cardinality(added) >= 2
    /\ SumValues({row \in receipts : row.id \in added}) > U128_MAX

(* The receipts whose notification has been delivered, when none is         *)
(* delivered twice.                                                         *)
Delivered == {row \in receipts : Notification(row) \notin notifications}

(* C9: on a pair that started without receipts and RAV, once the            *)
(* NewReceipt messages of n receipts have been handled in strictly          *)
(* increasing id order, value is the sum of their values (when it fits a    *)
(* u128) and last_id is the largest id.                                     *)
C9_InOrderSum ==
    (/\ status = "running"
     /\ started_fresh
     /\ delivered_in_order >= 0
     /\ duplicates = 0
     /\ triggers = 0
     /\ current = NoMessage
     /\ SumValues(Delivered) <= U128_MAX)
        => /\ unaggregated_fees.value = SumValues(Delivered)
           /\ unaggregated_fees.last_id =
                 (IF Delivered = {} THEN 0 ELSE MaxOf({row.id : row \in Delivered}))

(* Two receipts were delivered in order to an actor that started fresh. *)
C9_Witness ==
    /\ status = "running"
    /\ started_fresh
    /\ delivered_in_order = 2
    /\ duplicates = 0
    /\ triggers = 0
    /\ current = NoMessage
    /\ Cardinality(Delivered) = 2
    /\ unaggregated_fees = [last_id |-> 2, value |-> 2]

----------------------------------------------------------------------------
(* Properties of calculate_unaggregated_fee *)

(* The pair's receipts that a recomputation counts: signed by a signer of   *)
(* the sender, and strictly newer than the stored RAV when there is one.    *)
Counted ==
    {row \in receipts :
        /\ row.allocation_id = ALLOCATION_ID_0
        /\ row.signer_address \in PairEscrow.signers[SENDER]
        /\ (rav.present => ~ (row.timestamp_ns <= rav.timestamp_ns))}

(* C10: the recomputation returns the sum of the values of the pair's       *)
(* receipts signed by one of the sender's signers and strictly newer than   *)
(* the stored RAV (all of them when there is no RAV), and the largest id    *)
(* among them; a receipt with the RAV's timestamp is not counted.           *)
C10_Recomputation ==
    [][(status = "unstarted" /\ status' = "running") =>
          /\ unaggregated_fees'.value = SumValues(Counted)
          /\ unaggregated_fees'.last_id =
                (IF Counted = {} THEN 0 ELSE MaxOf({row.id : row \in Counted}))
          /\ \A row \in receipts :
                (rav.present /\ row.timestamp_ns = rav.timestamp_ns)
                    => row \notin Counted]_vars

(* The actor started on a table that held a receipt not newer than the RAV, *)
(* a receipt of another allocation or signer, and receipts that count.      *)
C10_Witness ==
    /\ status = "running"
    /\ rav.present
    /\ unaggregated_fees.last_id > 0
    /\ Cardinality(receipts) < next_id - 1
    /\ \E row \in receipts :
          row.allocation_id # ALLOCATION_ID_0 \/ row.signer_address # SIGNER

----------------------------------------------------------------------------
(* Properties of the end of calculate_unaggregated_fee (under SpecQuery) *)

HalfNull(res) == (res.max = None) # (res.sum = None)

(* C11: when MAX(id) and SUM(value) are both NULL the state is {last_id: 0, *)
(* value: 0}; when exactly one of them is NULL the computation is an error  *)
(* that ends the actor and produces no state: no state is ever built from   *)
(* a half-NULL row.                                                         *)
C11_NullAggregates ==
    status # "unstarted" =>
        /\ (aggregate_row.max = None /\ aggregate_row.sum = None)
              => /\ status = "running"
                 /\ unaggregated_fees = [last_id |-> 0, value |-> 0]
        /\ HalfNull(aggregate_row)
              => /\ status = "failed"
                 /\ error # NoError
                 /\ unaggregated_fees = UnaggregatedReceiptsDefault
                 /\ sender_account_mailbox = <<>>
                 /\ totals = UnaggregatedReceiptsDefault
        /\ status = "running" => ~ HalfNull(aggregate_row)

(* The query returned a sum without a maximum and the start failed. *)
C11_Witness ==
    /\ status = "failed"
    /\ aggregate_row.max = None
    /\ aggregate_row.sum # None

----------------------------------------------------------------------------
(* Properties of the accounting against the database (under Spec) *)

(* The actor runs, handles no message, and no notification is in flight. *)
Settled == status = "running" /\ current = NoMessage /\ notifications = {}

(* C12: after every message handled, once every notification of an         *)
(* inserted receipt has been delivered, state.value is the sum of the       *)
(* values of the pair's receipts newer than the pair's RAV, for every       *)
(* interleaving of insertion, delivery and TriggerRAVRequest.               *)
C12_ValueMatchesDatabase ==
    Settled => unaggregated_fees.value = SumValues(Counted)

(* C13: when the NewReceipt messages of distinct receipts reach the actor   *)
(* in an order other than id order, state.value is still the sum of the     *)
(* values of all of them once all have been handled.                        *)
C13_AnyOrderSum ==
    (/\ Settled
     /\ started_fresh
     /\ ~ rav.present
     /\ duplicates = 0
     /\ triggers = 0)
        => unaggregated_fees.value = Clamped(SumValues(receipts))

----------------------------------------------------------------------------
(* Properties of the RAV request (under Spec) *)

(* The actor handles a TriggerRAVRequest or CloseAllocation whose request   *)
(* has been sent to the aggregator.                                         *)
Requesting ==
    /\ current.type \in {"TriggerRAVRequest", "CloseAllocation"}
    /\ current.pc = "rpc"

(* The step in which the handler of TriggerRAVRequest stores the RAV. *)
TriggerSucceeds ==
    /\ current.type = "TriggerRAVRequest"
    /\ current.pc = "rpc"
    /\ rav' # rav

(* The pair's receipts newer than a RAV row, in a table. *)
NewerThan(table, rav_row) ==
    {row \in table :
        /\ row.allocation_id = ALLOCATION_ID_0
        /\ row.signer_address \in PairEscrow.signers[SENDER]
        /\ row.timestamp_ns > rav_row.timestamp_ns}

(* C14: after a TriggerRAVRequest whose RAV request succeeds the state is   *)
(* the one recomputed from the database: value is the sum of the pair's     *)
(* receipts newer than the new RAV (0 when it covers them all), and a reply *)
(* that is sent carries that state.                                         *)
C14_RecomputedAfterRav ==
    [][(TriggerSucceeds /\ status' = "running") =>
          /\ unaggregated_fees'.value = SumValues(NewerThan(receipts, rav'))
          /\ unaggregated_fees'.last_id =
                (IF NewerThan(receipts, rav') = {} THEN 0
                 ELSE MaxOf({row.id : row \in NewerThan(receipts, rav')}))
          /\ \/ reply' = reply
             \/ reply' = [sent |-> TRUE, fees |-> unaggregated_fees']]_vars

(* A RAV was stored, a receipt newer than it is left, and the reply carried *)
(* the recomputed state.                                                    *)
C14_Witness ==
    /\ status = "running"
    /\ rav.present
    /\ reply.sent
    /\ reply.fees = unaggregated_fees
    /\ unaggregated_fees.value > 0
    /\ unaggregated_fees.value = SumValues(NewerThan(receipts, rav))

(* C15: a RAV request that finds no valid receipt is not fatal: no RAV is   *)
(* requested or written, and the actor keeps running with its state         *)
(* unchanged.                                                               *)
C15_NoValidReceiptsNotFatal ==
    [][(/\ current.type = "TriggerRAVRequest"
        /\ current.pc = "start"
        /\ error' = "NoValidReceiptsForRAVRequest")
          => /\ status' = "running"
             /\ unaggregated_fees' = unaggregated_fees
             /\ rav' = rav
             /\ rav_requests_in_progress' = rav_requests_in_progress]_vars

(* C16: every RAV upsert replaces the stored row by one whose               *)
(* value_aggregate and timestamp_ns are at least those of the row replaced. *)
C16_RavMonotonic ==
    [][(rav.present /\ rav' # rav)
          => /\ rav'.present
             /\ rav'.value_aggregate >= rav.value_aggregate
             /\ rav'.timestamp_ns >= rav.timestamp_ns]_vars

(* A TriggerRAVRequest stored a RAV and the final request of a              *)
(* CloseAllocation replaced it.                                             *)
C16_Witness ==
    /\ reply.sent
    /\ rav.present
    /\ rav.last
    /\ rav.timestamp_ns = 2
    /\ rav.value_aggregate = 2

RequestEnds == Requesting /\ current' = NoMessage

VerificationErrors == {"InvalidReceivedRAV", "SignatureError", "InvalidRecoveredSigner"}

RequestBegins ==
    /\ current.type \in {"TriggerRAVRequest", "CloseAllocation"}
    /\ current.pc = "start"
    /\ current' # current
    /\ current' # NoMessage

(* The pair's receipts newer than time - buffer. *)
InsideBuffer(table, time) ==
    {row \in table :
        /\ row.allocation_id = ALLOCATION_ID_0
        /\ row.signer_address \in PairEscrow.signers[SENDER]
        /\ ~ (row.timestamp_ns <= time - Buffer)}

(* C19: a receipt newer than now - buffer when a RAV request is made is not *)
(* among its valid receipts, is still in the table after the request, is    *)
(* counted in state.value by the recomputation that follows, and is among   *)
(* the valid receipts of a later request once it is older than the buffer.  *)
C19_BufferedReceipts ==
    [][/\ RequestBegins =>
            current'.valid = Counted \ InsideBuffer(receipts, current'.time)
       /\ (RequestEnds /\ rav' # rav) =>
            InsideBuffer(receipts, current.time) \subseteq receipts'
       /\ (TriggerSucceeds /\ status' = "running") =>
            /\ InsideBuffer(receipts, current.time) \subseteq NewerThan(receipts', rav')
            /\ unaggregated_fees'.value = SumValues(NewerThan(receipts', rav'))]_vars

(* A request aggregates a receipt that an earlier request left out and the  *)
(* recomputation after it counted.                                          *)
C19_Witness ==
    /\ Requesting
    /\ rav.present
    /\ reply.sent
    /\ reply.fees.value > 0
    /\ \E row \in current.valid :
          /\ row.id <= reply.fees.last_id
          /\ row.timestamp_ns > rav.timestamp_ns

----------------------------------------------------------------------------
(* Properties of closing an allocation (under FairSpec) *)

(* The final RAV request failed at the aggregator, in the verification or  *)
(* storage of its response, or on an aggregate that does not fit.          *)
RequestFailed == error \in (RavOutcomes \ {"Ok"}) \cup {"AggregateOverflow"}

(* C20: every CloseAllocation delivered to a running actor is eventually    *)
(* followed by a final RAV request, the pair's RAV row marked final, an     *)
(* UpdateReceiptFees(allocation, zero) received by the parent and the actor *)
(* stopped, also when the pair has no unaggregated receipt at close time    *)
(* (a close whose RAV request itself fails is left aside).                  *)
C20_CloseCompletes ==
    (status = "running" /\ current.type = "CloseAllocation")
        ~> \/ /\ status = "stopped"
              /\ rav.present
              /\ rav.last
              /\ totals = UnaggregatedReceiptsDefault
           \/ RequestFailed

----------------------------------------------------------------------------
(* Properties of marking the RAV on close (under SpecClose) *)

(* The step in which the CloseAllocation handler has run mark_rav_last. *)
MarksRav == current.type = "CloseAllocation" /\ updated_rows' # updated_rows

(* C21: when the UPDATE that marks the pair's RAV on close affects a number *)
(* of rows other than 1, the CloseAllocation handler fails with an error    *)
(* and the actor does not request its stop (it neither stops nor runs       *)
(* post_stop later); when it affects exactly one row the row is marked and  *)
(* the actor asks to be stopped.                                            *)
C21_CloseFailsUnlessOneRow ==
    [][/\ MarksRav =>
            IF updated_rows' = Some(1)
            THEN status' = "stopping" /\ error' = NoError /\ rav'.present /\ rav'.last
            ELSE status' = "failed" /\ error' # NoError
       /\ (updated_rows # None /\ updated_rows # Some(1)) =>
            /\ status' = "failed"
            /\ sender_account_mailbox' = sender_account_mailbox]_vars

(* The final RAV was stored, the UPDATE matched no row and the handler      *)
(* failed.                                                                  *)
C21_Witness ==
    /\ status = "failed"
    /\ updated_rows = Some(0)
    /\ error = "UpdatedRowsNotOne"
    /\ receipts # {}

----------------------------------------------------------------------------
(* Properties of stopping the actor (under SpecClose) *)

(* C22: once the actor has stopped, by its own stop after a close or by its *)
(* supervisor's, the last UpdateReceiptFees it sent carries {last_id: 0,    *)
(* value: 0} for its allocation: it is the last message of the parent's     *)
(* mailbox, or the parent's total for the allocation is zero.               *)
C22_ZeroAfterStop ==
    status = "stopped" =>
        IF sender_account_mailbox # <<>>
        THEN sender_account_mailbox[Len(sender_account_mailbox)] =
                [type |-> "UpdateReceiptFees", allocation_id |-> ALLOCATION_ID_0,
                 fees |-> [last_id |-> 0, value |-> 0]]
        ELSE totals = [last_id |-> 0, value |-> 0]

(* The supervisor stopped an actor that held fees, and the parent's total   *)
(* is back to zero.                                                         *)
C22_Witness ==
    /\ status = "stopped"
    /\ updated_rows = None
    /\ unaggregated_fees.value > 0
    /\ added # {}
    /\ sender_account_mailbox = <<>>
    /\ totals = [last_id |-> 0, value |-> 0]

----------------------------------------------------------------------------
(* Properties of starting the actor (under SpecClose) *)

(* The step in which pre_start returns. *)
Starts == status = "unstarted" /\ status' # "unstarted"

(* C23: pre_start computes the state from the database and sends            *)
(* UpdateReceiptFees(allocation_id, state) to the parent, and no message is *)
(* handled before it has; when the computation fails the actor does not     *)
(* start, sends nothing to the parent and never handles a message.          *)
C23_StartPushesState ==
    [][/\ Starts =>
            IF status' = "running"
            THEN /\ unaggregated_fees' =
                       [last_id |-> IF Counted = {} THEN 0
                                    ELSE MaxOf({row.id : row \in Counted}),
                        value |-> SumValues(Counted)]
                 /\ sender_account_mailbox' =
                       sender_account_mailbox \o
                          <<[type |-> "UpdateReceiptFees",
                             allocation_id |-> ALLOCATION_ID_0,
                             fees |-> unaggregated_fees']>>
            ELSE /\ status' = "failed"
                 /\ error' # NoError
                 /\ sender_account_mailbox' = sender_account_mailbox
                 /\ totals' = totals
       /\ status = "unstarted" =>
            /\ current = NoMessage /\ current' = NoMessage
            /\ sender_account_mailbox = <<>>
       /\ (status = "failed" /\ error \in {"ParseIntError", "ExactlyOneNull"}) =>
            /\ status' = "failed"
            /\ current' = NoMessage
            /\ sender_account_mailbox' = <<>>
            /\ totals' = UnaggregatedReceiptsDefault]_vars

(* The actor started on stored receipts, the parent holds the state it      *)
(* computed, and the first message is about to be handled.                  *)
C23_Witness ==
    /\ status = "running"
    /\ stored_at_start # {}
    /\ added = {}
    /\ current.type = "NewReceipt"
    /\ totals.value > 0
    /\ totals = unaggregated_fees

----------------------------------------------------------------------------
(* Properties of the allocations feed (under SpecFeed) *)

(* The step in which the response of a refresh's query is dealt with. *)
Responds == feed.pc = "query" /\ feed'.pc # "query"

(* C24: a refresh that fails on the query or on an error response leaves    *)
(* the published value as it was and the loop running: the closure is run   *)
(* again, half the refresh interval later at the earliest, and the value    *)
(* is the same after every number of consecutive failures.                  *)
C24_FailedRefreshKeepsValue ==
    [][/\ (Responds /\ feed'.response.kind \in {"QueryError", "ErrorResponse"}) =>
            /\ indexer_allocations' = indexer_allocations
            /\ feed'.published = feed.published
            /\ feed'.pc = "retry"
            /\ feed'.failures = feed.failures + 1
            /\ 2 * (feed'.wake - clock) = Interval
       /\ feed.pc = "retry" =>
            /\ indexer_allocations' = indexer_allocations
            /\ feed'.published = feed.published
            /\ feed'.pc \in {"retry", "query"}
            /\ feed'.pc = "query" => clock >= feed.wake]_vars

(* A value was published, and it is still the feed's value after two        *)
(* consecutive failures, the second on another kind of error.               *)
C24_Witness ==
    /\ feed.published
    /\ feed.failures = 2
    /\ feed.pc = "retry"
    /\ feed.response.kind = "ErrorResponse"
    /\ feed.error = "ErrorResponse"
    /\ clock < feed.wake

(* C25: a response with indexer = null is a failed refresh ("Indexer not    *)
(* found on the network"): nothing is published, an empty map neither, and  *)
(* what was published before stays the feed's value.                        *)
C25_NullIndexerIsFailure ==
    [][(Responds /\ feed'.response.kind = "Data" /\ ~ feed'.response.indexer) =>
          /\ feed'.error = "IndexerNotFound"
          /\ feed'.pc = "retry"
          /\ indexer_allocations' = indexer_allocations
          /\ feed'.published = feed.published]_vars

(* The first refresh was answered with indexer = null: the feed has no      *)
(* value, and the closure will be run again.                                *)
C25_Witness ==
    /\ ~ feed.published
    /\ feed.pc = "retry"
    /\ feed.error = "IndexerNotFound"
    /\ ~ network.indexer

(* C26 (as claimed): a refresh whose query is answered with the indexer's   *)
(* allocations publishes a map whose keys are exactly the ids of the        *)
(* active allocations and of the allocations closed at or after             *)
(* closed_at_threshold = now - recently_closed_allocation_buffer.           *)
C26_PublishesActiveAndRecentlyClosed ==
    [][(Responds /\ feed'.response.kind = "Data" /\ feed'.response.indexer) =>
          /\ feed'.published
          /\ indexer_allocations' =
                {a \in Allocs :
                    \/ network.allocations[a].status = "Active"
                    \/ /\ network.allocations[a].status = "Closed"
                       /\ network.allocations[a].closed_at
                             >= feed.closed_at_threshold}]_vars

----------------------------------------------------------------------------
(* Properties of a restart (under SpecLife) *)

(* The actor about to start replaces one that the supervisor stopped while  *)
(* it was running: it did not fail and was not closed.                      *)
StoppedWhileRunning == restarted /\ error = NoError /\ updated_rows = None

(* C27 (as claimed): when an actor that has handled NewReceipt and          *)
(* successful TriggerRAVRequest messages is stopped with no notification in *)
(* flight and a new actor is started for the pair, the state the new one    *)
(* computes from the database is the state {last_id, value} the stopped     *)
(* one held.                                                                *)
C27_RestartSameState ==
    [][(Starts /\ StoppedWhileRunning /\ notifications = {})
          => /\ status' = "running"
             /\ unaggregated_fees' = unaggregated_fees]_vars

----------------------------------------------------------------------------
(* Properties of the receipts stored before the actor started (under Spec) *)

(* The pair's rows of a table. *)
PairRows(table) ==
    {row \in table : /\ row.allocation_id = ALLOCATION_ID_0
                     /\ row.signer_address \in PairEscrow.signers[SENDER]}

(* C28 (as claimed): the receipts of the pair inserted before its actor     *)
(* existed are counted exactly once: pre_start includes them in the state   *)
(* it computes, and a NewReceipt for one of them that is handled after the  *)
(* start does not change state.value.                                       *)
C28_StoredBeforeStartCountedOnce ==
    [][/\ (Starts /\ status' = "running") =>
            unaggregated_fees'.value = SumValues(PairRows(receipts))
       /\ (HandlesNewReceipt /\ current.id \in stored_at_start) =>
            unaggregated_fees'.value = unaggregated_fees.value]_vars

(* The step in which is_unique answers the call of task t. *)
AnswersIsUnique(t) ==
    /\ call[t].pc = "is_unique"
    /\ call'[t].pc = "returned"

(* The rows that carry the signature of the receipt under another id. *)
SameSignatureRows(table, receipt, receipt_id) ==
    {row \in table : row.signature = receipt.signature /\ row.id # receipt_id}

(* C29: when is_unique(receipt, receipt_id) answers, it answers true        *)
(* exactly when the table holds no row with the receipt's signature under   *)
(* an id other than receipt_id, and false otherwise; so for a receipt       *)
(* stored under a new id while its signature was stored already, the        *)
(* answer for the new id is false.  (It answers with an adapter error only  *)
(* when the id does not fit the query's i64 or the query fails.)            *)
C29_UniqueIffNoOtherRow ==
    [][\A t \in Tasks :
         AnswersIsUnique(t) =>
            LET others == SameSignatureRows(receipts, call[t].receipt,
                                            call[t].receipt_id)
                answer == call'[t].result
            IN /\ answer \in {"true", "false", "AdapterError"}
               /\ answer = "AdapterError"
                     <=> (call[t].receipt_id > I64_MAX \/ ~ call'[t].io_ok)
               /\ answer = "true" => others = {}
               /\ answer = "false" => others # {}]_vars

(* C29 happens: a receipt is in the table under ids 1 and 2, and is_unique  *)
(* for the new id 2 answered false, while for another receipt, stored       *)
(* once, it answered true under that receipt's id.                          *)
C29_Witness ==
    /\ \E r1, r2 \in receipts :
         r1.id = 1 /\ r2.id = 2 /\ r1.signature = r2.signature
    /\ \E t \in Tasks :
         /\ Returned(t) /\ call[t].result = "false"
         /\ call[t].receipt_id = 2
         /\ \E row \in receipts :
              row.id = 2 /\ row.signature = call[t].receipt.signature
    /\ \E t \in Tasks :
         /\ Returned(t) /\ call[t].result = "true"
         /\ \E row \in receipts :
              /\ row.id = call[t].receipt_id
              /\ row.signature = call[t].receipt.signature

(* What the checks of a call found, in the order of the code: the first     *)
(* check that failed, or "passed".                                          *)
FirstFailure(t) ==
    IF ~ call[t].saw_allocation THEN "IneligibleAllocation"
    ELSE IF recover_signer(call[t].receipt) = RecoverError THEN "SignatureInvalid"
    ELSE IF call[t].saw_balance # "positive" THEN "IneligibleSender"
    ELSE "passed"

(* C30: a call that has returned returned the error of the first check that *)
(* failed in the order allocation, signature, sender, whatever the later    *)
(* checks would have found (an ineligible allocation is reported also for   *)
(* an unrecoverable signature, and the escrow feed is then not read); the   *)
(* insert is reached, and a row stored or a storage error returned, only    *)
(* by calls that passed all three checks.                                   *)
C30_ChecksInOrder ==
    \A t \in Tasks :
        /\ Returned(t) =>
              /\ FirstFailure(t) # "passed" => call[t].result = FirstFailure(t)
              /\ FirstFailure(t) = "passed" => call[t].result \in {"Ok", "StorageError"}
              /\ call[t].result \in {"IneligibleAllocation", "SignatureInvalid"}
                    => call[t].saw_balance = "unread"
        /\ call[t].pc = "insert" => FirstFailure(t) = "passed"

(* C30 happens: one call was rejected as IneligibleAllocation for a receipt *)
(* whose signature cannot be recovered, another for a receipt whose signer  *)
(* has no positive escrow balance.                                          *)
C30_Witness ==
    \E t1, t2 \in Tasks :
        /\ Returned(t1) /\ call[t1].result = "IneligibleAllocation"
        /\ recover_signer(call[t1].receipt) = RecoverError
        /\ Returned(t2) /\ call[t2].result = "IneligibleAllocation"
        /\ recover_signer(call[t2].receipt) # RecoverError
        /\ Seen(escrow_accounts.balances, recover_signer(call[t2].receipt)) # "positive"

----------------------------------------------------------------------------
(* Properties of the RAV request in full (under SpecRequest) *)

(* The errors rav_requester_single returns. *)
RavRequestErrors ==
    (RavOutcomes \ {"Ok"}) \cup
    {"NoValidReceiptsForRAVRequest", "AggregateOverflow",
     "StoreInvalidReceiptsError", "ClientBuildError"}

(* The step that ends the handling of a TriggerRAVRequest. *)
TriggerEnds ==
    /\ status = "running"
    /\ current.type = "TriggerRAVRequest"
    /\ current' = NoMessage

(* C31: when the RAV request of a TriggerRAVRequest fails, at whichever     *)
(* step, the handler returns the error to the supervisor (the actor ends    *)
(* with it), unaggregated_fees is what it was before the message, the       *)
(* tables the recomputation would read and clean are untouched, and nothing *)
(* is sent on the reply port nor to the parent; a handler that ends without *)
(* such an error has stored a RAV.                                          *)
C31_FailedRequestLeavesState ==
    [][TriggerEnds =>
          /\ (error' \in RavRequestErrors) <=> (rav' = rav)
          /\ error' \in RavRequestErrors =>
                /\ status' = "failed"
                /\ unaggregated_fees' = unaggregated_fees
                /\ receipts' = receipts
                /\ aggregate_row' = aggregate_row
                /\ reply' = reply
                /\ sender_account_mailbox' = sender_account_mailbox]_vars

(* C31 happens: the only TriggerRAVRequest failed on the signature of the   *)
(* aggregator's response while the actor held fees and a receipt it had     *)
(* not counted yet was in the table; it held the fees still, and no reply   *)
(* was sent.                                                                *)
C31_Witness ==
    /\ status = "failed"
    /\ error = "SignatureError"
    /\ triggers = 1
    /\ ~ rav.present
    /\ ~ reply.sent
    /\ notifications # {}
    /\ unaggregated_fees.value > 0
    /\ unaggregated_fees.value < SumValues(PairRows(receipts))

(* The step that ends the handling of a CloseAllocation. *)
CloseEnds ==
    /\ status = "running"
    /\ current.type = "CloseAllocation"
    /\ current' = NoMessage

(* C32: the handler of CloseAllocation runs the UPDATE that marks the       *)
(* pair's RAV only after its RAV request has succeeded and stored the RAV,  *)
(* and asks for its stop only after the marking has succeeded: when the     *)
(* request fails, at whichever step, no UPDATE is run, the RAV row is as    *)
(* before and no stop is requested; when the marking fails no stop is       *)
(* requested; a stop is requested only with the RAV stored and marked.      *)
C32_MarkAfterRequestStopAfterMark ==
    [][CloseEnds =>
          /\ error' \in RavRequestErrors =>
                /\ updated_rows' = updated_rows
                /\ rav' = rav
                /\ status' = "failed"
          /\ updated_rows' # updated_rows =>
                /\ current.pc = "rpc"
                /\ error' \notin RavRequestErrors
                /\ rav' \in {NoRav, [current.expected EXCEPT !.last = TRUE]}
          /\ error' = "UpdatedRowsNotOne" => status' = "failed"
          /\ status' # "failed" =>
                /\ status' = "stopping"
                /\ updated_rows' = Some(1)
                /\ rav' = [current.expected EXCEPT !.last = TRUE]
                /\ error' = NoError]_vars

(* C32 happens: a close whose request failed on an invalid RAV left the     *)
(* RAV stored by an earlier TriggerRAVRequest unmarked and the actor        *)
(* failed, without any UPDATE.                                              *)
C32_Witness ==
    /\ status = "failed"
    /\ error = "InvalidReceivedRAV"
    /\ triggers = 1
    /\ rav.present /\ ~ rav.last
    /\ updated_rows = None
    /\ Cardinality(rav_requests_failed) = 1
    /\ \A row \in rav_requests_failed : row.expected_rav.timestamp_ns > rav.timestamp_ns

(* The step of a RAV request from its creation to the aggregator call. *)
RequestStarts ==
    /\ status = "running"
    /\ current.type \in {"TriggerRAVRequest", "CloseAllocation"}
    /\ current.pc = "start"
    /\ current' # current

(* The receipts a request sent at some time set aside as invalid: those in  *)
(* the request's range that are not among its valid receipts.               *)
SetAside(time, valid) == valid_receipts(receipts, rav, Signers, time) \ valid

(* The rows of scalar_tap_receipts_invalid written in the step. *)
Persisted == receipts_invalid' \ receipts_invalid

(* C35: a RAV request proceeds in the order build, persist the invalid      *)
(* receipts, call the aggregator, verify, then upsert the RAV or write the  *)
(* failed-RAV row.  When the aggregator is called every receipt that was    *)
(* set aside has its row in the invalid-receipts table and neither RAV      *)
(* table has been written; when building fails nothing is persisted, and    *)
(* when building or persisting fails the aggregator is not called and no    *)
(* RAV is written; after the call nothing more is persisted, the RAV        *)
(* written is the expected one, written only when the response verified,    *)
(* and a failed-RAV row is written only when it did not.                    *)
C35_RequestStepsInOrder ==
    [][/\ RequestStarts =>
            /\ rav' = rav
            /\ rav_requests_failed' = rav_requests_failed
            /\ receipts_invalid \subseteq receipts_invalid'
            /\ IF current' # NoMessage
               THEN /\ current'.pc = "rpc"
                    /\ current'.valid # {}
                    /\ Cardinality(Persisted) =
                          Cardinality(SetAside(current'.time, current'.valid))
                    /\ \A row \in SetAside(current'.time, current'.valid) :
                          \E stored \in Persisted :
                             /\ stored.signature = row.signature
                             /\ stored.signer_address = row.signer_address
                             /\ stored.allocation_id = row.allocation_id
                             /\ stored.timestamp_ns = row.timestamp_ns
                             /\ stored.value = row.value
               ELSE /\ status' = "failed"
                    /\ rav_requests_in_progress' = rav_requests_in_progress
                    /\ error' \in {"NoValidReceiptsForRAVRequest", "AggregateOverflow",
                                   "StoreInvalidReceiptsError", "ClientBuildError"}
                    /\ error' \in {"NoValidReceiptsForRAVRequest", "AggregateOverflow"}
                          => Persisted = {}
       /\ RequestEnds =>
            /\ Persisted = {}
            /\ rav' # rav =>
                  /\ error' \notin RavOutcomes
                  /\ rav_requests_failed' = rav_requests_failed
                  /\ rav' \in {current.expected, NoRav,
                               [current.expected EXCEPT !.last = TRUE]}
            /\ rav_requests_failed' # rav_requests_failed =>
                  /\ rav' = rav
                  /\ error' \in VerificationErrors
       /\ rav' # rav => Requesting]_vars

(* C35 happens: a TriggerRAVRequest set one receipt aside and aggregated    *)
(* the other: the invalid receipt has its row, the RAV of the valid one is  *)
(* stored, and the actor runs on.                                           *)
C35_Witness ==
    /\ status = "running"
    /\ current = NoMessage
    /\ triggers = 1
    /\ rav.present
    /\ Cardinality(receipts_invalid) = 1
    /\ rav_requests_failed = {}
    /\ \A stored \in receipts_invalid : stored.timestamp_ns <= rav.timestamp_ns

----------------------------------------------------------------------------
(* Properties of last_id over the actor's lifetime (under Spec) *)

(* C33: while the actor runs, last_id never decreases, whether a NewReceipt *)
(* is handled or the state is recomputed after a TriggerRAVRequest, and it  *)
(* is at least every id whose NewReceipt the actor has counted.             *)
C33_LastIdNeverDecreases ==
    [][(status = "running" /\ status' = "running") =>
          /\ unaggregated_fees'.last_id >= unaggregated_fees.last_id
          /\ \A id \in added' : unaggregated_fees'.last_id >= id]_vars

----------------------------------------------------------------------------
(* Properties of what the parent is told (under Spec) *)

(* The parent has been sent the fees: by the UpdateReceiptFees cast in this *)
(* step, or on the reply port of the TriggerRAVRequest handled in it.       *)
SentToParent(fees) ==
    \/ sender_account_mailbox' =
          Append(sender_account_mailbox, UpdateReceiptFees(ALLOCATION_ID_0, fees))
    \/ /\ current.type = "TriggerRAVRequest"
       /\ reply' = [sent |-> TRUE, fees |-> fees]

(* C34: every step of the running actor that changes unaggregated_fees      *)
(* sends the new state to the parent, by UpdateReceiptFees or on the reply  *)
(* port of the TriggerRAVRequest, also when that port is closed; so with    *)
(* the actor between two messages and nothing in the parent's mailbox, the  *)
(* parent's record or the last reply is the actor's state.                  *)
C34_ChangesReachParent ==
    [][/\ (unaggregated_fees' # unaggregated_fees /\ status' = "running")
            => SentToParent(unaggregated_fees')
       /\ (status' = "running" /\ current' = NoMessage
              /\ sender_account_mailbox' = <<>>)
            => \/ totals' = unaggregated_fees'
               \/ reply' = [sent |-> TRUE, fees |-> unaggregated_fees']]_vars

----------------------------------------------------------------------------
(* Properties of admission's frame (under SpecPipeline) *)

(* A step of the verify_and_store_receipt call of task t. *)
AdmissionStep(t) == call'[t] # call[t]

(* The row the receipts table gained in the step. *)
NewRows == receipts' \ receipts

(* C36: a step of verify_and_store_receipt writes neither feed and no       *)
(* state of the accounting actor or its parent; the only thing it changes   *)
(* besides its own progress is the receipts table, by the one row of a call *)
(* that returns Ok, and with it the row's insert notification; a call that  *)
(* returns an error of a check leaves the table as it was.  The actor       *)
(* comes to handle a NewReceipt only by taking a notification in flight,    *)
(* and while it runs its state changes only in handling one.                *)
C36_AdmissionFrame ==
    [][/\ \A t \in Tasks :
            AdmissionStep(t) =>
               /\ indexer_allocations' = indexer_allocations
               /\ escrow_accounts' = escrow_accounts
               /\ feedVars' = feedVars
               /\ actorVars' = actorVars
               /\ (Returned(t)' /\ call'[t].result \notin {"Ok", "StorageError"})
                     => (receipts' = receipts /\ notifications' = notifications)
               /\ receipts' # receipts =>
                     /\ Returned(t)' /\ call'[t].result = "Ok"
                     /\ receipts \subseteq receipts'
                     /\ NewRows = {Row(next_id, call[t].receipt)}
                     /\ notifications' =
                           notifications \cup {Notification(row) : row \in NewRows}
       /\ (current' # current /\ current'.type = "NewReceipt") =>
             /\ \E n \in notifications : current' = NewReceipt(n)
             /\ \E row \in receipts : row.id = current'.id
       /\ (status = "running" /\ unaggregated_fees' # unaggregated_fees) =>
             current.type = "NewReceipt"]_vars

(* C36 happens: one call was rejected for its sender and another stored its *)
(* receipt; the table holds that one row, and the running actor has counted *)
(* it from its notification.                                                *)
C36_Witness ==
    /\ \E t \in Tasks :
         Returned(t) /\ call[t].result = "IneligibleSender"
    /\ \E t \in Tasks : Returned(t) /\ call[t].result = "Ok"
    /\ Cardinality(receipts) = 1
    /\ notifications = {}
    /\ status = "running"
    /\ added = {1}
    /\ unaggregated_fees = [last_id |-> 1, value |-> 1]

====
